---- MODULE Spec2Model ----
(***************************************************************************)
(* Session lifecycle and monitoring-event ingestion of the exam-proctor    *)
(* backend: ExternalCallMonitoringService together with the HTTP, socket   *)
(* and timer entry points that call it.                                    *)
(*                                                                         *)
(* Every asynchronous operation is split at its awaits: the synchronous    *)
(* part up to the await, the storage operation itself (which may fail),    *)
(* and the continuation after the await.  Several invocations may be in    *)
(* flight at once, as on the Node.js event loop.                           *)
(***************************************************************************)
EXTENDS Integers, Sequences, FiniteSets, Bags, TLC

\* ------------------------------------------------------------------ bounds
MaxRequests == 4       \* runs of the upload and delete handlers of index.ts
MaxCalls == 3          \* invocations (handler runs) in one behaviour
MaxTime == 1           \* the clock runs over 0..MaxTime

Calls == 1..MaxCalls
Times == 0..MaxTime
SessionIds == {"s1", "s2"}      \* values uuidv4() may return
UserIds == {"u1", "u2"}

NoRef == 0             \* null / undefined object reference
NoTime == -1           \* endTime not set
NoId == "none"
NoPath == <<>>         \* recording path not set
NoModel == "null"      \* transcriber not loaded
Sockets == {"k1", "k2"}         \* client sockets
NoSocket == "none"

\* ------------------------------------------------------------------ state
VARIABLES
    activeSessions,    \* Map<string, ProctorSession>, entries in insertion order
    objs,              \* heap: the ProctorSession object built by start call c
    sessionDocs,       \* ProctorSessionModel collection
    monitoringDocs,    \* CallMonitoringDataModel collection
    calls,             \* handler invocations: position, locals, outcome
    now,               \* the clock read by new Date()
    gaze,              \* GazeTrackingService: isTracking, trackingInterval
    audioInterval,     \* AudioAnalysisService.analysisInterval
    audioTimers,       \* live setInterval timers of the audio service
    rooms,             \* socket.io: the session rooms each client socket is in
    delivered,         \* socket.io: bag of the messages written to client sockets
    transcriber,       \* TranscriptionService.transcriber
    isLoading,         \* TranscriptionService.isLoading
    loadPromise,       \* TranscriptionService.loadPromise
    promises,          \* state of the promise of each initializeModel() run
    recordings,        \* index.ts: the recordings array, entries by reference
    recordingObjs,     \* heap: the Recording object built by upload run q
    files,             \* uploaded files on disk, named after the upload
    requests,          \* index.ts: runs of the upload and delete handlers
    hook,              \* useProctorSession: session, loading, error
    socketConnected,   \* WebSocketService: this.socket?.connected
    joinEffect         \* Dashboard: the joinSession effect is due to run

vars == <<activeSessions, objs, sessionDocs, monitoringDocs, calls, now,
          gaze, audioInterval, audioTimers, rooms, delivered,
          transcriber, isLoading, loadPromise, promises,
          recordings, recordingObjs, files, requests,
          hook, socketConnected, joinEffect>>

socketIo == <<rooms, delivered>>

transcription == <<transcriber, isLoading, loadPromise, promises>>

recordingStore == <<recordings, recordingObjs, files, requests>>

client == <<hook, socketConnected, joinEffect>>

\* ------------------------------------------------------- Map<string, ...>
MapKeys(m) == {m[i].key : i \in 1..Len(m)}

MapHas(m, k) == \E i \in 1..Len(m) : m[i].key = k

MapGet(m, k) ==
    IF MapHas(m, k)
    THEN m[CHOOSE i \in 1..Len(m) :
               /\ m[i].key = k
               /\ \A j \in 1..(i - 1) : m[j].key # k].value
    ELSE NoRef

MapSet(m, k, v) ==
    IF MapHas(m, k)
    THEN [i \in 1..Len(m) |->
             IF m[i].key = k THEN [key |-> k, value |-> v] ELSE m[i]]
    ELSE Append(m, [key |-> k, value |-> v])

\* faulty variant: a delete that misses its key
MapDeleteMiss(m, k) == m

MapDelete(m, k) == SelectSeq(m, LAMBDA e : e.key # k)

MapValues(m) == [i \in 1..Len(m) |-> m[i].value]

\* ------------------------------------------------------------ collections
EmptyPaths == [video |-> NoPath, audio |-> NoPath, screen |-> NoPath]

CallPlatforms == {"zoom", "meet", "teams", "other"}

DocIndexes(docs, sid) == {i \in 1..Len(docs) : docs[i].sessionId = sid}

FindOne(docs, sid) ==
    IF DocIndexes(docs, sid) = {} THEN 0
    ELSE CHOOSE i \in DocIndexes(docs, sid) :
             \A j \in DocIndexes(docs, sid) : i <= j

\* An update is a sequence of <<path, value>> assignments, a path being
\* <<"status">> or <<"recordingPaths", "video">>.
ApplyField(d, path, v) ==
    IF Len(path) = 1 THEN [d EXCEPT ![path[1]] = v]
    ELSE [d EXCEPT ![path[1]][path[2]] = v]

RECURSIVE ApplyUpdate(_, _)
ApplyUpdate(d, update) ==
    IF update = <<>> THEN d
    ELSE ApplyUpdate(ApplyField(d, update[1][1], update[1][2]), Tail(update))

\* faulty variant: the update is acknowledged but not applied
FindOneAndUpdateLost(docs, sid, update) == docs

\* findOneAndUpdate({ sessionId }, update): the first matching document, if any
FindOneAndUpdate(docs, sid, update) ==
    IF FindOne(docs, sid) = 0 THEN docs
    ELSE [docs EXCEPT ![FindOne(docs, sid)] = ApplyUpdate(@, update)]

\* schema validation of a session document and its unique sessionId index
SessionDocValid(doc) ==
    /\ doc.sessionId # ""
    /\ doc.userId # ""
    /\ doc.externalCallId # ""
    /\ doc.callPlatform \in CallPlatforms
    /\ doc.status \in {"active", "paused", "ended", "recording"}

\* faulty variant: no unique index on sessionId
SessionIdUniqueOff(docs, doc) == TRUE

SessionIdUnique(docs, doc) == DocIndexes(docs, doc.sessionId) = {}

\* ------------------------------------------------------------------ calls
IdleCall ==
    [op |-> "none", pc |-> "idle", origin |-> "none", socket |-> NoSocket,
     auth |-> "", body |-> <<>>, sessionId |-> NoId,
     recordingType |-> "", session |-> NoRef, doc |-> <<>>, ok |-> FALSE,
     result |-> "none", http |-> 0]

\* runs of the upload and delete handlers of index.ts
Requests == 1..MaxRequests

IdleRequest ==
    [op |-> "none", pc |-> "idle", id |-> NoRef, recording |-> NoRef,
     recordingIndex |-> 0, http |-> 0]

\* no Recording object; no session in the hook (null)
NoRecording == [id |-> NoRef, path |-> NoRef, transcriptStatus |-> "none"]

NoSession == [id |-> NoId, status |-> "none", endTime |-> NoTime]

NoObj ==
    [id |-> NoId, userId |-> "", status |-> "none", endTime |-> NoTime,
     recordingPaths |-> EmptyPaths]

\* the next free invocation slot (slots are used in order)
Fresh(c) ==
    /\ calls[c].pc = "idle"
    /\ \A d \in Calls : d < c => calls[d].pc # "idle"

Init ==
    /\ activeSessions = <<>>
    /\ objs = [c \in Calls |-> NoObj]
    /\ sessionDocs = <<>>
    /\ monitoringDocs = <<>>
    /\ calls = [c \in Calls |-> IdleCall]
    /\ now = 0
    /\ gaze = [isTracking |-> FALSE, trackingInterval |-> NoRef]
    /\ audioInterval = NoRef
    /\ audioTimers = {}
    /\ rooms = [k \in Sockets |-> {}]
    /\ delivered = EmptyBag
    /\ transcriber = NoModel
    /\ isLoading = FALSE
    /\ loadPromise = NoRef
    /\ promises = [c \in Calls |-> "none"]
    /\ recordings = <<>>
    /\ recordingObjs = [q \in Requests |-> NoRecording]
    /\ files = {}
    /\ requests = [q \in Requests |-> IdleRequest]
    /\ hook = [session |-> NoSession, loading |-> FALSE, error |-> ""]
    /\ socketConnected = FALSE
    /\ joinEffect = FALSE

\* new Date(): the clock never runs backwards; t is the time read
ReadClock(t) ==
    /\ t \in Times
    /\ t >= now
    /\ now' = t

\* ------------------------------------------------------------------- auth
ApiKey == "key"

AuthHeaders == {"", "key", "Bearer key", "Bearer wrong"}

\* providedKey.replace(/^Bearer\s+/, '')
CleanKey(providedKey) ==
    CASE providedKey = "Bearer key" -> "key"
      [] providedKey = "Bearer wrong" -> "wrong"
      [] OTHER -> providedKey

Authenticate(providedKey) ==
    IF providedKey = "" THEN FALSE ELSE CleanKey(providedKey) = ApiKey

\* if (!authHeader || !AuthUtil.authenticate(authHeader))
Unauthorized(authHeader) == authHeader = "" \/ ~Authenticate(authHeader)

\* the request as the handler received it: the authorization header and,
\* for a start, the body
Request(authHeader, body) ==
    [IdleCall EXCEPT !.auth = authHeader, !.body = body]

Respond(req, op, sid, status) ==
    [req EXCEPT !.op = op, !.pc = "done", !.sessionId = sid, !.http = status]

\* ------------------------------------------------------- timer services
\* GazeTrackingService.startTracking: a no-op while tracking is active
StartTracking(g, ref) ==
    IF g.isTracking THEN g
    ELSE [isTracking |-> TRUE, trackingInterval |-> ref]

StopTracking(g) == [isTracking |-> FALSE, trackingInterval |-> NoRef]

\* AudioAnalysisService.startRealTimeAnalysis: a new timer, handle overwritten
StartRealTimeAnalysis(ref) ==
    /\ audioTimers' = audioTimers \cup {ref}
    /\ audioInterval' = ref

\* AudioAnalysisService.stopRealTimeAnalysis: clears the stored handle only
StopRealTimeAnalysis ==
    /\ audioTimers' = IF audioInterval # NoRef
                      THEN audioTimers \ {audioInterval}
                      ELSE audioTimers
    /\ audioInterval' = NoRef

\* ------------------------------------------------------------------ start
NewSession(id, body) ==
    [id |-> id, userId |-> body.userId, status |-> "active",
     endTime |-> NoTime, recordingPaths |-> EmptyPaths]

NewSessionDoc(session, body) ==
    [sessionId |-> session.id, userId |-> session.userId,
     externalCallId |-> body.externalCallId,
     callPlatform |-> body.callPlatform, status |-> session.status,
     endTime |-> NoTime, recordingPaths |-> session.recordingPaths]

\* faulty variant: the session is put into the index before the write is awaited
StartSessionEager(c, authHeader, body, id) ==
    /\ Fresh(c)
    /\ IF Unauthorized(authHeader)
       THEN /\ calls' = [calls EXCEPT ![c] =
                   Respond(Request(authHeader, <<body>>), "start", NoId, 401)]
            /\ UNCHANGED <<objs, activeSessions>>
       ELSE IF body.userId = "" \/ body.externalCallId = ""
                 \/ body.callPlatform = ""
       THEN /\ calls' = [calls EXCEPT ![c] =
                   Respond(Request(authHeader, <<body>>), "start", NoId, 400)]
            /\ UNCHANGED <<objs, activeSessions>>
       ELSE /\ objs' = [objs EXCEPT ![c] = NewSession(id, body)]
            /\ activeSessions' = MapSet(activeSessions, id, c)
            /\ calls' = [calls EXCEPT ![c] =
                   [Request(authHeader, <<body>>) EXCEPT
                        !.op = "start", !.pc = "awaitSave",
                        !.sessionId = id, !.session = c,
                        !.doc = <<NewSessionDoc(NewSession(id, body), body)>>]]
    /\ UNCHANGED <<sessionDocs, monitoringDocs, now, gaze,
                   audioInterval, audioTimers>>
    /\ UNCHANGED <<socketIo, transcription, recordingStore, client>>

\* faulty variant: the required fields of the body are not checked
StartSessionUnchecked(c, authHeader, body, id) ==
    /\ Fresh(c)
    /\ IF Unauthorized(authHeader)
       THEN /\ calls' = [calls EXCEPT ![c] =
                   Respond(Request(authHeader, <<body>>), "start", NoId, 401)]
            /\ UNCHANGED objs
       ELSE /\ objs' = [objs EXCEPT ![c] = NewSession(id, body)]
            /\ calls' = [calls EXCEPT ![c] =
                   [Request(authHeader, <<body>>) EXCEPT
                        !.op = "start", !.pc = "awaitSave",
                        !.sessionId = id, !.session = c,
                        !.doc = <<NewSessionDoc(NewSession(id, body), body)>>]]
    /\ UNCHANGED <<activeSessions, sessionDocs, monitoringDocs, now, gaze,
                   audioInterval, audioTimers>>
    /\ UNCHANGED <<socketIo, transcription, recordingStore, client>>

\* startSession up to `await sessionDoc.save()`; id is what uuidv4() returned
StartSession(c, authHeader, body, id) ==
    /\ Fresh(c)
    /\ IF Unauthorized(authHeader)
       THEN /\ calls' = [calls EXCEPT ![c] =
                   Respond(Request(authHeader, <<body>>), "start", NoId, 401)]
            /\ UNCHANGED objs
       ELSE IF body.userId = "" \/ body.externalCallId = ""
                 \/ body.callPlatform = ""
       THEN /\ calls' = [calls EXCEPT ![c] =
                   Respond(Request(authHeader, <<body>>), "start", NoId, 400)]
            /\ UNCHANGED objs
       ELSE /\ objs' = [objs EXCEPT ![c] = NewSession(id, body)]
            /\ calls' = [calls EXCEPT ![c] =
                   [Request(authHeader, <<body>>) EXCEPT
                        !.op = "start", !.pc = "awaitSave",
                        !.sessionId = id, !.session = c,
                        !.doc = <<NewSessionDoc(NewSession(id, body), body)>>]]
    /\ UNCHANGED <<activeSessions, sessionDocs, monitoringDocs, now, gaze,
                   audioInterval, audioTimers>>
    /\ UNCHANGED <<socketIo, transcription, recordingStore, client>>

\* sessionDoc.save(): rejected by validation or by the unique index, or the
\* storage call itself fails
SaveSessionAccepted(docs, doc) ==
    SessionDocValid(doc) /\ SessionIdUnique(docs, doc)

DbSaveSession(c) ==
    /\ calls[c].op = "start"
    /\ calls[c].pc = "awaitSave"
    /\ \/ /\ SaveSessionAccepted(sessionDocs, calls[c].doc[1])
          /\ sessionDocs' = Append(sessionDocs, calls[c].doc[1])
          /\ calls' = [calls EXCEPT ![c].pc = "resume", ![c].ok = TRUE]
       \/ /\ calls' = [calls EXCEPT ![c].pc = "resume", ![c].ok = FALSE]
          /\ UNCHANGED sessionDocs
    /\ UNCHANGED <<activeSessions, objs, monitoringDocs, now, gaze,
                   audioInterval, audioTimers>>
    /\ UNCHANGED <<socketIo, transcription, recordingStore, client>>

\* faulty variant: the session is returned without being put into the index
StartResumeNoRegister(c) ==
    /\ calls[c].op = "start"
    /\ calls[c].pc = "resume"
    /\ IF calls[c].ok
       THEN /\ gaze' = StartTracking(gaze, calls[c].session)
            /\ StartRealTimeAnalysis(calls[c].session)
            /\ calls' = [calls EXCEPT ![c].pc = "done", ![c].doc = <<>>,
                                      ![c].result = "ok", ![c].http = 200]
       ELSE /\ calls' = [calls EXCEPT ![c].pc = "done", ![c].doc = <<>>,
                                      ![c].result = "StorageError",
                                      ![c].http = 500]
            /\ UNCHANGED <<gaze, audioInterval, audioTimers>>
    /\ UNCHANGED <<activeSessions, objs, sessionDocs, monitoringDocs, now>>
    /\ UNCHANGED <<socketIo, transcription, recordingStore, client>>

\* after the await: register, start the samplers, answer
StartResume(c) ==
    /\ calls[c].op = "start"
    /\ calls[c].pc = "resume"
    /\ IF calls[c].ok
       THEN /\ activeSessions' =
                   MapSet(activeSessions, calls[c].sessionId, calls[c].session)
            /\ gaze' = StartTracking(gaze, calls[c].session)
            /\ StartRealTimeAnalysis(calls[c].session)
            /\ calls' = [calls EXCEPT ![c].pc = "done", ![c].doc = <<>>,
                                      ![c].result = "ok", ![c].http = 200]
       ELSE /\ calls' = [calls EXCEPT ![c].pc = "done", ![c].doc = <<>>,
                                      ![c].result = "StorageError",
                                      ![c].http = 500]
            /\ UNCHANGED <<activeSessions, gaze, audioInterval, audioTimers>>
    /\ UNCHANGED <<objs, sessionDocs, monitoringDocs, now>>
    /\ UNCHANGED <<socketIo, transcription, recordingStore, client>>

\* -------------------------------------------------------------------- end
\* faulty variant: the update leaves the end time out
EndUpdateNoTime(endTime) == <<<<<<"status">>, "ended">>>>

\* the update { status: 'ended', endTime: session.endTime }
EndUpdate(endTime) ==
    <<<<<<"status">>, "ended">>, <<<<"endTime">>, endTime>>>>

\* faulty variant: ending a session that is not active is accepted as a no-op
EndSessionLenient(c, authHeader, sid, t) ==
    /\ Fresh(c)
    /\ IF Unauthorized(authHeader)
       THEN /\ calls' = [calls EXCEPT ![c] =
                   Respond(Request(authHeader, <<>>), "end", sid, 401)]
            /\ UNCHANGED <<objs, now>>
       ELSE IF sid = ""
       THEN /\ calls' = [calls EXCEPT ![c] =
                   Respond(Request(authHeader, <<>>), "end", sid, 400)]
            /\ UNCHANGED <<objs, now>>
       ELSE IF MapGet(activeSessions, sid) = NoRef
       THEN /\ calls' = [calls EXCEPT ![c] =
                   [Respond(Request(authHeader, <<>>), "end", sid, 200) EXCEPT
                        !.result = "ok"]]
            /\ UNCHANGED <<objs, now>>
       ELSE /\ ReadClock(t)
            /\ objs' = [objs EXCEPT
                   ![MapGet(activeSessions, sid)].status = "ended",
                   ![MapGet(activeSessions, sid)].endTime = t]
            /\ calls' = [calls EXCEPT ![c] =
                   [Request(authHeader, <<>>) EXCEPT
                        !.op = "end", !.pc = "awaitUpdate",
                        !.sessionId = sid,
                        !.session = MapGet(activeSessions, sid),
                        !.doc = EndUpdate(t)]]
    /\ UNCHANGED <<activeSessions, sessionDocs, monitoringDocs, gaze,
                   audioInterval, audioTimers>>
    /\ UNCHANGED <<socketIo, transcription, recordingStore, client>>

\* endSession up to `await ProctorSessionModel.findOneAndUpdate(...)`
EndSession(c, authHeader, sid, t) ==
    /\ Fresh(c)
    /\ IF Unauthorized(authHeader)
       THEN /\ calls' = [calls EXCEPT ![c] =
                   Respond(Request(authHeader, <<>>), "end", sid, 401)]
            /\ UNCHANGED <<objs, now>>
       ELSE IF sid = ""
       THEN /\ calls' = [calls EXCEPT ![c] =
                   Respond(Request(authHeader, <<>>), "end", sid, 400)]
            /\ UNCHANGED <<objs, now>>
       ELSE IF MapGet(activeSessions, sid) = NoRef
       THEN /\ calls' = [calls EXCEPT ![c] =
                   [Respond(Request(authHeader, <<>>), "end", sid, 500) EXCEPT
                        !.result = "SessionNotFound"]]
            /\ UNCHANGED <<objs, now>>
       ELSE /\ ReadClock(t)
            /\ objs' = [objs EXCEPT
                   ![MapGet(activeSessions, sid)].status = "ended",
                   ![MapGet(activeSessions, sid)].endTime = t]
            /\ calls' = [calls EXCEPT ![c] =
                   [Request(authHeader, <<>>) EXCEPT
                        !.op = "end", !.pc = "awaitUpdate",
                        !.sessionId = sid,
                        !.session = MapGet(activeSessions, sid),
                        !.doc = EndUpdate(t)]]
    /\ UNCHANGED <<activeSessions, sessionDocs, monitoringDocs, gaze,
                   audioInterval, audioTimers>>
    /\ UNCHANGED <<socketIo, transcription, recordingStore, client>>

DbUpdateEnd(c) ==
    /\ calls[c].op = "end"
    /\ calls[c].pc = "awaitUpdate"
    /\ \/ /\ sessionDocs' = FindOneAndUpdate(sessionDocs, calls[c].sessionId,
                                             calls[c].doc)
          /\ calls' = [calls EXCEPT ![c].pc = "resume", ![c].ok = TRUE]
       \/ /\ calls' = [calls EXCEPT ![c].pc = "resume", ![c].ok = FALSE]
          /\ UNCHANGED sessionDocs
    /\ UNCHANGED <<activeSessions, objs, monitoringDocs, now, gaze,
                   audioInterval, audioTimers>>
    /\ UNCHANGED <<socketIo, transcription, recordingStore, client>>

EndResume(c) ==
    /\ calls[c].op = "end"
    /\ calls[c].pc = "resume"
    /\ IF calls[c].ok
       THEN /\ activeSessions' = MapDelete(activeSessions, calls[c].sessionId)
            /\ gaze' = StopTracking(gaze)
            /\ StopRealTimeAnalysis
            /\ calls' = [calls EXCEPT ![c].pc = "done", ![c].doc = <<>>,
                                      ![c].result = "ok", ![c].http = 200]
       ELSE /\ calls' = [calls EXCEPT ![c].pc = "done", ![c].doc = <<>>,
                                      ![c].result = "StorageError",
                                      ![c].http = 500]
            /\ UNCHANGED <<activeSessions, gaze, audioInterval, audioTimers>>
    /\ UNCHANGED <<objs, sessionDocs, monitoringDocs, now>>
    /\ UNCHANGED <<socketIo, transcription, recordingStore, client>>


\* ----------------------------------------------------------------- record
\* An optional sample is a sequence of length 0 (undefined) or 1.
GazeAwayThresholdMs == 5000
MultipleVoicesConfidence == 8      \* 0.8, confidences are in tenths

\* faulty variant: a duration equal to the threshold qualifies
GazeFindingInclusive(gazeData, t) ==
    IF Len(gazeData) = 1 /\ gazeData[1].lookingAway
       /\ gazeData[1].duration >= GazeAwayThresholdMs
    THEN <<[type |-> "gaze_away", severity |-> "medium", timestamp |-> t,
            description |-> <<"User looked away for ", gazeData[1].duration, "ms">>,
            confidence |-> gazeData[1].confidence]>>
    ELSE <<>>

GazeFinding(gazeData, t) ==
    IF Len(gazeData) = 1 /\ gazeData[1].lookingAway
       /\ gazeData[1].duration > GazeAwayThresholdMs
    THEN <<[type |-> "gaze_away", severity |-> "medium", timestamp |-> t,
            description |-> <<"User looked away for ", gazeData[1].duration, "ms">>,
            confidence |-> gazeData[1].confidence]>>
    ELSE <<>>

\* faulty variant: silent audio is never flagged
AudioFindingAudible(audioData, t) ==
    IF Len(audioData) = 1 /\ audioData[1].multipleVoices
       /\ audioData[1].volume > 0
    THEN <<[type |-> "multiple_voices", severity |-> "high", timestamp |-> t,
            description |-> <<"Multiple voices detected in audio">>,
            confidence |-> MultipleVoicesConfidence]>>
    ELSE <<>>

AudioFinding(audioData, t) ==
    IF Len(audioData) = 1 /\ audioData[1].multipleVoices
    THEN <<[type |-> "multiple_voices", severity |-> "high", timestamp |-> t,
            description |-> <<"Multiple voices detected in audio">>,
            confidence |-> MultipleVoicesConfidence]>>
    ELSE <<>>

\* faulty variant: the audio rule is applied before the gaze rule
MonitoringDataAudioFirst(sid, gazeData, audioData, t) ==
    [sessionId |-> sid, timestamp |-> t, gazeData |-> gazeData,
     audioData |-> audioData,
     suspiciousActivity |-> AudioFinding(audioData, t) \o GazeFinding(gazeData, t)]

\* faulty variant: the event does not carry the session id
MonitoringDataNoSession(sid, gazeData, audioData, t) ==
    [sessionId |-> NoId, timestamp |-> t, gazeData |-> gazeData,
     audioData |-> audioData,
     suspiciousActivity |-> GazeFinding(gazeData, t) \o AudioFinding(audioData, t)]

MonitoringData(sid, gazeData, audioData, t) ==
    [sessionId |-> sid, timestamp |-> t, gazeData |-> gazeData,
     audioData |-> audioData,
     suspiciousActivity |-> GazeFinding(gazeData, t) \o AudioFinding(audioData, t)]

\* who invoked a record: a client socket with the authorization header of
\* its handshake, or one of the sampling timers
Caller(origin, socket, authHeader) ==
    [origin |-> origin, socket |-> socket, auth |-> authHeader]

\* faulty variant: the existence check is missing
RecordMonitoringDataNoCheck(c, from, sid, gazeData, audioData, t) ==
    /\ Fresh(c)
    /\ ReadClock(t)
    /\ calls' = [calls EXCEPT ![c] =
           [IdleCall EXCEPT !.op = "record", !.pc = "awaitSave",
                !.origin = from.origin, !.socket = from.socket,
                        !.auth = from.auth, !.sessionId = sid,
                !.session = MapGet(activeSessions, sid),
                !.doc = <<MonitoringData(sid, gazeData, audioData, t)>>]]
    /\ UNCHANGED <<activeSessions, objs, sessionDocs, monitoringDocs,
                   gaze, audioInterval, audioTimers>>
    /\ UNCHANGED <<socketIo, transcription, recordingStore, client>>

\* recordMonitoringData up to `await monitoringDoc.save()`
RecordMonitoringData(c, from, sid, gazeData, audioData, t) ==
    /\ Fresh(c)
    /\ IF MapGet(activeSessions, sid) = NoRef
       THEN /\ calls' = [calls EXCEPT ![c] =
                   [IdleCall EXCEPT !.op = "record", !.pc = "done",
                        !.origin = from.origin, !.socket = from.socket,
                        !.auth = from.auth, !.sessionId = sid,
                        !.result = "SessionNotFound"]]
            /\ UNCHANGED now
       ELSE /\ ReadClock(t)
            /\ calls' = [calls EXCEPT ![c] =
                   [IdleCall EXCEPT !.op = "record", !.pc = "awaitSave",
                        !.origin = from.origin, !.socket = from.socket,
                        !.auth = from.auth, !.sessionId = sid,
                        !.session = MapGet(activeSessions, sid),
                        !.doc = <<MonitoringData(sid, gazeData, audioData, t)>>]]
    /\ UNCHANGED <<activeSessions, objs, sessionDocs, monitoringDocs,
                   gaze, audioInterval, audioTimers>>
    /\ UNCHANGED <<socketIo, transcription, recordingStore, client>>

\* socket.on('join-session'): the client socket joins the session's room
JoinSession(socket, sid) ==
    /\ rooms' = [rooms EXCEPT ![socket] = @ \cup {sid}]
    /\ UNCHANGED <<activeSessions, objs, sessionDocs, monitoringDocs, calls,
                   now, gaze, audioInterval, audioTimers, delivered>>
    /\ UNCHANGED <<transcription, recordingStore, client>>

\* a disconnecting socket leaves every room
Disconnect(socket) ==
    /\ rooms[socket] # {}
    /\ rooms' = [rooms EXCEPT ![socket] = {}]
    /\ UNCHANGED <<activeSessions, objs, sessionDocs, monitoringDocs, calls,
                   now, gaze, audioInterval, audioTimers, delivered>>
    /\ UNCHANGED <<transcription, recordingStore, client>>

\* faulty variant: the room is ignored
SocketToAll(socket, sid) == Sockets \ {socket}

\* socket.to(room): every socket in the room except the sender
SocketTo(socket, sid) == {k \in Sockets \ {socket} : sid \in rooms[k]}

\* emit(event, data) to a set of sockets; call is the handler run that emits
Emit(targets, event, call, data) ==
    delivered (+)
        SetToBag({[to |-> k, event |-> event, call |-> call, data |-> data] :
                      k \in targets})

\* the sets of sockets that may be connected: connections are not tracked,
\* but a socket that is in a room is connected
ConnectedSets ==
    {T \in SUBSET Sockets : \A k \in Sockets : rooms[k] # {} => k \in T}

WebhookEventTypes ==
    {"call_started", "call_ended", "participant_joined", "participant_left"}

\* faulty variant: a call_ended event empties the index
HandleExternalCallWebhookEnding(c, connected, webhookData, t) ==
    /\ Fresh(c)
    /\ connected \in ConnectedSets
    /\ ReadClock(t)
    /\ delivered' = Emit(connected, "external-call-webhook", c,
                         [webhookData EXCEPT !.timestamp = t])
    /\ activeSessions' = IF webhookData.eventType = "call_ended"
                         THEN <<>> ELSE activeSessions
    /\ calls' = [calls EXCEPT ![c] =
           [IdleCall EXCEPT !.op = "webhook", !.pc = "done",
                !.origin = "webhook", !.doc = <<webhookData>>,
                !.result = "ok", !.http = 200]]
    /\ UNCHANGED <<objs, sessionDocs, monitoringDocs, gaze,
                   audioInterval, audioTimers, rooms>>
    /\ UNCHANGED <<transcription, recordingStore, client>>

\* POST /webhook/external-call: io.emit to every connected socket, a log
\* line per event type, 200
HandleExternalCallWebhook(c, connected, webhookData, t) ==
    /\ Fresh(c)
    /\ connected \in ConnectedSets
    /\ ReadClock(t)
    /\ delivered' = Emit(connected, "external-call-webhook", c,
                         [webhookData EXCEPT !.timestamp = t])
    /\ calls' = [calls EXCEPT ![c] =
           [IdleCall EXCEPT !.op = "webhook", !.pc = "done",
                !.origin = "webhook", !.doc = <<webhookData>>,
                !.result = "ok", !.http = 200]]
    /\ UNCHANGED <<activeSessions, objs, sessionDocs, monitoringDocs, gaze,
                   audioInterval, audioTimers, rooms>>
    /\ UNCHANGED <<transcription, recordingStore, client>>

\* socket.on('monitoring-data'): a client pushes a sample; the handler reads
\* no credential
SocketMonitoringData(c, socket, authHeader, sid, gazeData, audioData, t) ==
    RecordMonitoringData(c, Caller("socket", socket, authHeader), sid,
                         gazeData, audioData, t)

\* the gaze timer's callback: record(session.id, gazeData)
GazeTimerFires(c, gazeData, t) ==
    /\ gaze.trackingInterval # NoRef
    /\ RecordMonitoringData(c, Caller("gaze", NoSocket, ""),
                            objs[gaze.trackingInterval].id,
                            <<gazeData>>, <<>>, t)

\* an audio timer's callback: record(session.id, undefined, audioData)
AudioTimerFires(c, timer, audioData, t) ==
    /\ timer \in audioTimers
    /\ RecordMonitoringData(c, Caller("audio", NoSocket, ""), objs[timer].id,
                            <<>>, <<audioData>>, t)

DbSaveEvent(c) ==
    /\ calls[c].op = "record"
    /\ calls[c].pc = "awaitSave"
    /\ \/ /\ monitoringDocs' = Append(monitoringDocs, calls[c].doc[1])
          /\ calls' = [calls EXCEPT ![c].pc = "resume", ![c].ok = TRUE]
       \/ /\ calls' = [calls EXCEPT ![c].pc = "resume", ![c].ok = FALSE]
          /\ UNCHANGED monitoringDocs
    /\ UNCHANGED <<activeSessions, objs, sessionDocs, now, gaze,
                   audioInterval, audioTimers>>
    /\ UNCHANGED <<socketIo, transcription, recordingStore, client>>

\* the data a client sent with 'monitoring-data'
ClientData(event) ==
    [sessionId |-> event.sessionId, gazeData |-> event.gazeData,
     audioData |-> event.audioData]

\* after the await: the socket handler broadcasts the client's data to the
\* other sockets of the room, or logs the error; a timer callback has no
\* continuation
RecordResume(c) ==
    /\ calls[c].op = "record"
    /\ calls[c].pc = "resume"
    /\ calls' = [calls EXCEPT ![c].pc = "done", ![c].doc = <<>>,
                     ![c].result = IF calls[c].ok THEN "ok" ELSE "StorageError"]
    /\ delivered' =
           IF calls[c].ok /\ calls[c].origin = "socket"
           THEN Emit(SocketTo(calls[c].socket, calls[c].sessionId),
                     "monitoring-update", c, ClientData(calls[c].doc[1]))
           ELSE delivered
    /\ UNCHANGED <<activeSessions, objs, sessionDocs, monitoringDocs, now,
                   gaze, audioInterval, audioTimers, rooms>>
    /\ UNCHANGED <<transcription, recordingStore, client>>

\* ---------------------------------------------------------------- queries
\* getSessionStatus: the index only; NoRef is null
GetSessionStatus(sid) == MapGet(activeSessions, sid)

\* getAllActiveSessions: Array.from(values()), references to the live objects
GetAllActiveSessions == MapValues(activeSessions)

\* faulty variant: only ended sessions are read
GetSessionHistoryEndedOnly(userId) ==
    LET found == SelectSeq(sessionDocs,
                     LAMBDA d : d.userId = userId /\ d.status = "ended")
    IN  [i \in 1..Len(found) |->
            [id |-> found[i].sessionId, userId |-> found[i].userId,
             status |-> found[i].status, endTime |-> found[i].endTime,
             recordingPaths |-> found[i].recordingPaths]]

\* getSessionHistory: ProctorSessionModel.find({ userId }), mapped to sessions
GetSessionHistory(userId) ==
    LET found == SelectSeq(sessionDocs, LAMBDA d : d.userId = userId)
    IN  [i \in 1..Len(found) |->
            [id |-> found[i].sessionId, userId |-> found[i].userId,
             status |-> found[i].status, endTime |-> found[i].endTime,
             recordingPaths |-> found[i].recordingPaths]]

\* a caller inside the process calls getAllActiveSessions() and keeps the
\* array it got: a new array of references to the live session objects
GetAllActiveSessionsCall(c) ==
    /\ Fresh(c)
    /\ calls' = [calls EXCEPT ![c] =
           [IdleCall EXCEPT !.op = "listActive", !.pc = "done",
                !.origin = "service", !.result = "ok",
                !.doc = GetAllActiveSessions]]
    /\ UNCHANGED <<activeSessions, objs, sessionDocs, monitoringDocs, now,
                   gaze, audioInterval, audioTimers>>
    /\ UNCHANGED <<socketIo, transcription, recordingStore, client>>

\* GET /:sessionId/status
GetSessionStatusHandler(c, authHeader, sid) ==
    /\ Fresh(c)
    /\ calls' = [calls EXCEPT ![c] =
           IF Unauthorized(authHeader)
           THEN Respond(Request(authHeader, <<>>), "status", sid, 401)
           ELSE IF sid = ""
           THEN Respond(Request(authHeader, <<>>), "status", sid, 400)
           ELSE IF GetSessionStatus(sid) = NoRef
           THEN [Respond(Request(authHeader, <<>>), "status", sid, 404) EXCEPT
                     !.result = "SessionNotFound"]
           ELSE [Respond(Request(authHeader, <<>>), "status", sid, 200) EXCEPT
                     !.result = "ok", !.session = GetSessionStatus(sid),
                     !.doc = <<objs[GetSessionStatus(sid)]>>]]
    /\ UNCHANGED <<activeSessions, objs, sessionDocs, monitoringDocs, now,
                   gaze, audioInterval, audioTimers>>
    /\ UNCHANGED <<socketIo, transcription, recordingStore, client>>

\* GET /active
GetActiveSessionsHandler(c, authHeader) ==
    /\ Fresh(c)
    /\ calls' = [calls EXCEPT ![c] =
           IF Unauthorized(authHeader)
           THEN Respond(Request(authHeader, <<>>), "active", NoId, 401)
           ELSE [Respond(Request(authHeader, <<>>), "active", NoId, 200) EXCEPT
                     !.result = "ok",
                     !.doc = [i \in 1..Len(GetAllActiveSessions) |->
                                 objs[GetAllActiveSessions[i]]]]]
    /\ UNCHANGED <<activeSessions, objs, sessionDocs, monitoringDocs, now,
                   gaze, audioInterval, audioTimers>>
    /\ UNCHANGED <<socketIo, transcription, recordingStore, client>>

\* GET /history/:userId up to `await ProctorSessionModel.find({ userId })`
GetSessionHistoryHandler(c, authHeader, userId) ==
    /\ Fresh(c)
    /\ calls' = [calls EXCEPT ![c] =
           IF Unauthorized(authHeader)
           THEN Respond(Request(authHeader, <<>>), "history", NoId, 401)
           ELSE IF userId = ""
           THEN Respond(Request(authHeader, <<>>), "history", NoId, 400)
           ELSE [Request(authHeader, <<>>) EXCEPT
                     !.op = "history", !.pc = "awaitFind",
                     !.doc = <<userId>>]]
    /\ UNCHANGED <<activeSessions, objs, sessionDocs, monitoringDocs, now,
                   gaze, audioInterval, audioTimers>>
    /\ UNCHANGED <<socketIo, transcription, recordingStore, client>>

DbFindHistory(c) ==
    /\ calls[c].op = "history"
    /\ calls[c].pc = "awaitFind"
    /\ \/ calls' = [calls EXCEPT ![c].pc = "resume", ![c].ok = TRUE,
              ![c].doc = GetSessionHistory(calls[c].doc[1])]
       \/ calls' = [calls EXCEPT ![c].pc = "resume", ![c].ok = FALSE,
              ![c].doc = <<>>]
    /\ UNCHANGED <<activeSessions, objs, sessionDocs, monitoringDocs, now,
                   gaze, audioInterval, audioTimers>>
    /\ UNCHANGED <<socketIo, transcription, recordingStore, client>>

HistoryResume(c) ==
    /\ calls[c].op = "history"
    /\ calls[c].pc = "resume"
    /\ calls' = [calls EXCEPT ![c].pc = "done",
           ![c].result = IF calls[c].ok THEN "ok" ELSE "StorageError",
           ![c].http = IF calls[c].ok THEN 200 ELSE 500]
    /\ UNCHANGED <<activeSessions, objs, sessionDocs, monitoringDocs, now,
                   gaze, audioInterval, audioTimers>>
    /\ UNCHANGED <<socketIo, transcription, recordingStore, client>>

\* ------------------------------------------------------------- recordings
RecordingTypes == {"video", "audio", "screen"}

\* the update { 'recordingPaths.<type>': path }
PathUpdate(rtype, path) == <<<<<<"recordingPaths", rtype>>, path>>>>

\* faulty variant: the session is not looked up in the index
UploadRecordingNoLookup(c, authHeader, sid, rtype, hasFile) ==
    /\ Fresh(c)
    /\ calls' = [calls EXCEPT ![c] =
           IF Unauthorized(authHeader)
           THEN [Respond(Request(authHeader, <<>>), "upload", sid, 401) EXCEPT
                     !.recordingType = rtype]
           ELSE IF sid = "" \/ rtype = "" \/ ~hasFile
           THEN [Respond(Request(authHeader, <<>>), "upload", sid, 400) EXCEPT
                     !.recordingType = rtype]
           ELSE IF rtype \notin RecordingTypes
           THEN [Respond(Request(authHeader, <<>>), "upload", sid, 400) EXCEPT
                     !.recordingType = rtype]
           ELSE [Request(authHeader, <<>>) EXCEPT
                     !.op = "upload", !.pc = "awaitWrite",
                     !.sessionId = sid, !.recordingType = rtype,
                     !.session = GetSessionStatus(sid)]]
    /\ UNCHANGED <<activeSessions, objs, sessionDocs, monitoringDocs, now,
                   gaze, audioInterval, audioTimers>>
    /\ UNCHANGED <<socketIo, transcription, recordingStore, client>>

\* uploadRecording up to `await recordingService.saveRecording(...)`
UploadRecording(c, authHeader, sid, rtype, hasFile) ==
    /\ Fresh(c)
    /\ calls' = [calls EXCEPT ![c] =
           IF Unauthorized(authHeader)
           THEN [Respond(Request(authHeader, <<>>), "upload", sid, 401) EXCEPT
                     !.recordingType = rtype]
           ELSE IF sid = "" \/ rtype = "" \/ ~hasFile
           THEN [Respond(Request(authHeader, <<>>), "upload", sid, 400) EXCEPT
                     !.recordingType = rtype]
           ELSE IF rtype \notin RecordingTypes
           THEN [Respond(Request(authHeader, <<>>), "upload", sid, 400) EXCEPT
                     !.recordingType = rtype]
           ELSE IF GetSessionStatus(sid) = NoRef
           THEN [Respond(Request(authHeader, <<>>), "upload", sid, 404) EXCEPT
                     !.recordingType = rtype,
                     !.result = "SessionNotFound"]
           ELSE [Request(authHeader, <<>>) EXCEPT !.op = "upload", !.pc = "awaitWrite",
                     !.sessionId = sid, !.recordingType = rtype,
                     !.session = GetSessionStatus(sid)]]
    /\ UNCHANGED <<activeSessions, objs, sessionDocs, monitoringDocs, now,
                   gaze, audioInterval, audioTimers>>
    /\ UNCHANGED <<socketIo, transcription, recordingStore, client>>

\* saveRecording: the file is written and the path update is issued, or the
\* write fails and the handler answers 500
SaveRecording(c) ==
    /\ calls[c].op = "upload"
    /\ calls[c].pc = "awaitWrite"
    /\ \/ calls' = [calls EXCEPT ![c].pc = "awaitUpdate",
              ![c].doc = PathUpdate(calls[c].recordingType,
                  <<calls[c].sessionId, calls[c].recordingType, c>>)]
       \/ calls' = [calls EXCEPT ![c].pc = "done", ![c].result = "SaveFailed",
              ![c].http = 500]
    /\ UNCHANGED <<activeSessions, objs, sessionDocs, monitoringDocs, now,
                   gaze, audioInterval, audioTimers>>
    /\ UNCHANGED <<socketIo, transcription, recordingStore, client>>

DbUpdatePath(c) ==
    /\ calls[c].op = "upload"
    /\ calls[c].pc = "awaitUpdate"
    /\ \/ /\ sessionDocs' = FindOneAndUpdate(sessionDocs, calls[c].sessionId,
                                             calls[c].doc)
          /\ calls' = [calls EXCEPT ![c].pc = "resume", ![c].ok = TRUE]
       \/ /\ calls' = [calls EXCEPT ![c].pc = "resume", ![c].ok = FALSE]
          /\ UNCHANGED sessionDocs
    /\ UNCHANGED <<activeSessions, objs, monitoringDocs, now, gaze,
                   audioInterval, audioTimers>>
    /\ UNCHANGED <<socketIo, transcription, recordingStore, client>>

\* after the path update: a video goes on to processing, others are answered
UploadResume(c) ==
    /\ calls[c].op = "upload"
    /\ calls[c].pc = "resume"
    /\ calls' = [calls EXCEPT ![c] =
           IF ~calls[c].ok
           THEN [@ EXCEPT !.pc = "done", !.doc = <<>>,
                     !.result = "StorageError", !.http = 500]
           ELSE IF calls[c].recordingType = "video"
           THEN [@ EXCEPT !.pc = "awaitProcess"]
           ELSE [@ EXCEPT !.pc = "done", !.doc = <<>>, !.result = "ok",
                     !.http = 200]]
    /\ UNCHANGED <<activeSessions, objs, sessionDocs, monitoringDocs, now,
                   gaze, audioInterval, audioTimers>>
    /\ UNCHANGED <<socketIo, transcription, recordingStore, client>>

\* processVideoRecording: on success the second update is issued, on failure
\* the handler answers 200 with a warning
ProcessVideoRecording(c) ==
    /\ calls[c].op = "upload"
    /\ calls[c].pc = "awaitProcess"
    /\ \/ calls' = [calls EXCEPT ![c].pc = "awaitUpdate2",
              ![c].doc =
                  PathUpdate("video", <<calls[c].sessionId, "processed_video", c>>)
                  \o PathUpdate("audio",
                                <<calls[c].sessionId, "extracted_audio", c>>)]
       \/ calls' = [calls EXCEPT ![c].pc = "done", ![c].doc = <<>>,
              ![c].result = "ok", ![c].http = 200]
    /\ UNCHANGED <<activeSessions, objs, sessionDocs, monitoringDocs, now,
                   gaze, audioInterval, audioTimers>>
    /\ UNCHANGED <<socketIo, transcription, recordingStore, client>>

DbUpdateProcessed(c) ==
    /\ calls[c].op = "upload"
    /\ calls[c].pc = "awaitUpdate2"
    /\ \/ /\ sessionDocs' = FindOneAndUpdate(sessionDocs, calls[c].sessionId,
                                             calls[c].doc)
          /\ calls' = [calls EXCEPT ![c].pc = "resume2", ![c].ok = TRUE]
       \/ /\ calls' = [calls EXCEPT ![c].pc = "resume2", ![c].ok = FALSE]
          /\ UNCHANGED sessionDocs
    /\ UNCHANGED <<activeSessions, objs, monitoringDocs, now, gaze,
                   audioInterval, audioTimers>>
    /\ UNCHANGED <<socketIo, transcription, recordingStore, client>>

\* after the second update: 200, and 200 with a warning when the update
\* failed (it is inside the try of the processing)
UploadProcessedResume(c) ==
    /\ calls[c].op = "upload"
    /\ calls[c].pc = "resume2"
    /\ calls' = [calls EXCEPT ![c].pc = "done", ![c].doc = <<>>,
           ![c].result = "ok", ![c].http = 200]
    /\ UNCHANGED <<activeSessions, objs, sessionDocs, monitoringDocs, now,
                   gaze, audioInterval, audioTimers>>
    /\ UNCHANGED <<socketIo, transcription, recordingStore, client>>

\* deleteRecording up to `await ProctorSessionModel.findOne({ sessionId })`
DeleteRecording(c, authHeader, sid, rtype) ==
    /\ Fresh(c)
    /\ calls' = [calls EXCEPT ![c] =
           IF Unauthorized(authHeader)
           THEN [Respond(Request(authHeader, <<>>), "delete", sid, 401) EXCEPT
                     !.recordingType = rtype]
           ELSE IF sid = "" \/ rtype = ""
           THEN [Respond(Request(authHeader, <<>>), "delete", sid, 400) EXCEPT
                     !.recordingType = rtype]
           ELSE [Request(authHeader, <<>>) EXCEPT !.op = "delete", !.pc = "awaitFind",
                     !.sessionId = sid, !.recordingType = rtype]]
    /\ UNCHANGED <<activeSessions, objs, sessionDocs, monitoringDocs, now,
                   gaze, audioInterval, audioTimers>>
    /\ UNCHANGED <<socketIo, transcription, recordingStore, client>>

\* sessionDoc.recordingPaths[recordingType]
RecordingPath(doc, rtype) ==
    IF rtype \in RecordingTypes THEN doc.recordingPaths[rtype] ELSE NoPath

\* findOne and what follows it: 404 without a document or a path, else the
\* unlink of the file is issued
DbFindSession(c) ==
    /\ calls[c].op = "delete"
    /\ calls[c].pc = "awaitFind"
    /\ \/ calls' = [calls EXCEPT ![c] =
              IF FindOne(sessionDocs, calls[c].sessionId) = 0
              THEN [@ EXCEPT !.pc = "done", !.result = "SessionNotFound",
                        !.http = 404]
              ELSE IF RecordingPath(
                          sessionDocs[FindOne(sessionDocs, calls[c].sessionId)],
                          calls[c].recordingType) = NoPath
              THEN [@ EXCEPT !.pc = "done", !.result = "RecordingNotFound",
                        !.http = 404]
              ELSE [@ EXCEPT !.pc = "awaitUnlink",
                        !.doc = <<RecordingPath(
                          sessionDocs[FindOne(sessionDocs, calls[c].sessionId)],
                          calls[c].recordingType)>>]]
       \/ calls' = [calls EXCEPT ![c].pc = "done",
              ![c].result = "StorageError", ![c].http = 500]
    /\ UNCHANGED <<activeSessions, objs, sessionDocs, monitoringDocs, now,
                   gaze, audioInterval, audioTimers>>
    /\ UNCHANGED <<socketIo, transcription, recordingStore, client>>

\* recordingService.deleteRecording: then the $unset is issued, or 500
UnlinkRecording(c) ==
    /\ calls[c].op = "delete"
    /\ calls[c].pc = "awaitUnlink"
    /\ \/ calls' = [calls EXCEPT ![c].pc = "awaitUnset"]
       \/ calls' = [calls EXCEPT ![c].pc = "done", ![c].doc = <<>>,
              ![c].result = "DeleteFailed", ![c].http = 500]
    /\ UNCHANGED <<activeSessions, objs, sessionDocs, monitoringDocs, now,
                   gaze, audioInterval, audioTimers>>
    /\ UNCHANGED <<socketIo, transcription, recordingStore, client>>

DbUnsetPath(c) ==
    /\ calls[c].op = "delete"
    /\ calls[c].pc = "awaitUnset"
    /\ \/ /\ sessionDocs' = FindOneAndUpdate(sessionDocs, calls[c].sessionId,
                     PathUpdate(calls[c].recordingType, NoPath))
          /\ calls' = [calls EXCEPT ![c].pc = "resume", ![c].ok = TRUE]
       \/ /\ calls' = [calls EXCEPT ![c].pc = "resume", ![c].ok = FALSE]
          /\ UNCHANGED sessionDocs
    /\ UNCHANGED <<activeSessions, objs, monitoringDocs, now, gaze,
                   audioInterval, audioTimers>>
    /\ UNCHANGED <<socketIo, transcription, recordingStore, client>>

DeleteResume(c) ==
    /\ calls[c].op = "delete"
    /\ calls[c].pc = "resume"
    /\ calls' = [calls EXCEPT ![c].pc = "done", ![c].doc = <<>>,
           ![c].result = IF calls[c].ok THEN "ok" ELSE "StorageError",
           ![c].http = IF calls[c].ok THEN 200 ELSE 500]
    /\ UNCHANGED <<activeSessions, objs, sessionDocs, monitoringDocs, now,
                   gaze, audioInterval, audioTimers>>
    /\ UNCHANGED <<socketIo, transcription, recordingStore, client>>

\* ---------------------------------------------------------------- router
\* A route path is a sequence of segments, a parameter or a literal.
Param(name) == [param |-> TRUE, name |-> name]
Literal(name) == [param |-> FALSE, name |-> name]

\* the routes of the recordings router, in the order of their registration
RecordingRoutes ==
    <<[method |-> "POST", path |-> <<Literal("upload")>>,
       handler |-> "uploadRecording"],
      [method |-> "GET", path |-> <<Param("sessionId"), Param("recordingType")>>,
       handler |-> "getRecording"],
      [method |-> "GET", path |-> <<Param("sessionId"), Literal("info")>>,
       handler |-> "getRecordingInfo"],
      [method |-> "DELETE",
       path |-> <<Param("sessionId"), Param("recordingType")>>,
       handler |-> "deleteRecording"]>>

\* a parameter matches any non-empty segment, a literal only itself
RouteMatches(route, method, path) ==
    /\ route.method = method
    /\ Len(route.path) = Len(path)
    /\ \A i \in 1..Len(path) :
           IF route.path[i].param THEN path[i] # ""
           ELSE path[i] = route.path[i].name

\* the first registered route that matches handles the request (none of
\* the handlers calls next()); 0 when no route matches
Dispatch(routes, method, path) ==
    IF \E i \in 1..Len(routes) : RouteMatches(routes[i], method, path)
    THEN CHOOSE i \in 1..Len(routes) :
             /\ RouteMatches(routes[i], method, path)
             /\ \A j \in 1..(i - 1) : ~RouteMatches(routes[j], method, path)
    ELSE 0

\* req.params[name] of a matched route; "" when the route has no such
\* parameter
RouteParam(route, path, name) ==
    IF \E i \in 1..Len(path) : route.path[i] = Param(name)
    THEN path[CHOOSE i \in 1..Len(path) : route.path[i] = Param(name)]
    ELSE ""

\* getRecording up to `await ProctorSessionModel.findOne({ sessionId })`
GetRecording(authHeader, path, sid, rtype) ==
    IF Unauthorized(authHeader)
    THEN [Respond(Request(authHeader, <<path>>), "getRecording", sid, 401)
              EXCEPT !.recordingType = rtype]
    ELSE IF sid = "" \/ rtype = ""
    THEN [Respond(Request(authHeader, <<path>>), "getRecording", sid, 400)
              EXCEPT !.recordingType = rtype]
    ELSE [Request(authHeader, <<path>>) EXCEPT
              !.op = "getRecording", !.pc = "awaitFind", !.origin = "http",
              !.sessionId = sid, !.recordingType = rtype]

\* getRecordingInfo up to `await ProctorSessionModel.findOne({ sessionId })`
GetRecordingInfo(authHeader, path, sid) ==
    IF Unauthorized(authHeader)
    THEN Respond(Request(authHeader, <<path>>), "getRecordingInfo", sid, 401)
    ELSE IF sid = ""
    THEN Respond(Request(authHeader, <<path>>), "getRecordingInfo", sid, 400)
    ELSE [Request(authHeader, <<path>>) EXCEPT
              !.op = "getRecordingInfo", !.pc = "awaitFind",
              !.origin = "http", !.sessionId = sid]

\* a GET request below /api/recordings: the router picks the handler
RouterGet(c, authHeader, path) ==
    /\ Fresh(c)
    /\ calls' = [calls EXCEPT ![c] =
           LET r == Dispatch(RecordingRoutes, "GET", path) IN
           IF r = 0
           THEN Respond(Request(authHeader, <<path>>), "noRoute", "", 404)
           ELSE IF RecordingRoutes[r].handler = "getRecording"
           THEN GetRecording(authHeader, path,
                    RouteParam(RecordingRoutes[r], path, "sessionId"),
                    RouteParam(RecordingRoutes[r], path, "recordingType"))
           ELSE GetRecordingInfo(authHeader, path,
                    RouteParam(RecordingRoutes[r], path, "sessionId"))]
    /\ UNCHANGED <<activeSessions, objs, sessionDocs, monitoringDocs, now,
                   gaze, audioInterval, audioTimers>>
    /\ UNCHANGED <<socketIo, transcription, recordingStore, client>>

\* the `recordings` of getRecordingInfo: an entry for every stored path
RecordingInfo(doc) ==
    [sessionId |-> doc.sessionId,
     recordings |-> {rt \in RecordingTypes : doc.recordingPaths[rt] # NoPath}]

\* findOne of either handler and what follows it: 404 without a document;
\* getRecording answers 404 without a path and else reads the file,
\* getRecordingInfo answers 200 with the information
DbFindRecording(c) ==
    /\ calls[c].op \in {"getRecording", "getRecordingInfo"}
    /\ calls[c].pc = "awaitFind"
    /\ \/ calls' = [calls EXCEPT ![c] =
              IF FindOne(sessionDocs, calls[c].sessionId) = 0
              THEN [@ EXCEPT !.pc = "done", !.result = "SessionNotFound",
                        !.http = 404]
              ELSE IF calls[c].op = "getRecordingInfo"
              THEN [@ EXCEPT !.pc = "done", !.result = "ok", !.http = 200,
                        !.doc = <<RecordingInfo(
                          sessionDocs[FindOne(sessionDocs, calls[c].sessionId)])>>]
              ELSE IF RecordingPath(
                          sessionDocs[FindOne(sessionDocs, calls[c].sessionId)],
                          calls[c].recordingType) = NoPath
              THEN [@ EXCEPT !.pc = "done", !.result = "RecordingNotFound",
                        !.http = 404]
              ELSE [@ EXCEPT !.pc = "awaitRead",
                        !.doc = <<RecordingPath(
                          sessionDocs[FindOne(sessionDocs, calls[c].sessionId)],
                          calls[c].recordingType)>>]]
       \/ calls' = [calls EXCEPT ![c].pc = "done",
              ![c].result = "StorageError", ![c].http = 500]
    /\ UNCHANGED <<activeSessions, objs, sessionDocs, monitoringDocs, now,
                   gaze, audioInterval, audioTimers>>
    /\ UNCHANGED <<socketIo, transcription, recordingStore, client>>

\* recordingService.getRecording: a failed read is answered 404; after a
\* successful read `this.getContentType` throws, the handler being called
\* without its object, and the same catch answers 404
ReadRecording(c) ==
    /\ calls[c].op = "getRecording"
    /\ calls[c].pc = "awaitRead"
    /\ \/ calls' = [calls EXCEPT ![c].pc = "done", ![c].ok = TRUE,
              ![c].result = "RecordingFileNotFound", ![c].http = 404]
       \/ calls' = [calls EXCEPT ![c].pc = "done", ![c].ok = FALSE,
              ![c].result = "RecordingFileNotFound", ![c].http = 404]
    /\ UNCHANGED <<activeSessions, objs, sessionDocs, monitoringDocs, now,
                   gaze, audioInterval, audioTimers>>
    /\ UNCHANGED <<socketIo, transcription, recordingStore, client>>

\* --------------------------------------------------------- transcription
serviceVars ==
    <<activeSessions, objs, sessionDocs, monitoringDocs, now, gaze,
      audioInterval, audioTimers>>

\* faulty variant: a pending load is not shared
LoadModelUnshared(c) ==
    IF transcriber # NoModel
    THEN /\ calls' = [calls EXCEPT ![c].pc = "reuse"]
         /\ UNCHANGED transcription
    ELSE /\ isLoading' = TRUE
         /\ loadPromise' = c
         /\ promises' = [promises EXCEPT ![c] = "pending"]
         /\ calls' = [calls EXCEPT ![c].pc = "awaitLoad", ![c].doc = <<c>>]
         /\ UNCHANGED transcriber

\* loadModel up to its return or its await, run by transcribe call c: the
\* loaded model, the pending promise, or a new initializeModel() whose
\* promise is named after the call
LoadModel(c) ==
    IF transcriber # NoModel
    THEN /\ calls' = [calls EXCEPT ![c].pc = "reuse"]
         /\ UNCHANGED transcription
    ELSE IF loadPromise # NoRef
    THEN /\ calls' = [calls EXCEPT ![c].pc = "awaitShared",
                                   ![c].doc = <<loadPromise>>]
         /\ UNCHANGED transcription
    ELSE /\ isLoading' = TRUE
         /\ loadPromise' = c
         /\ promises' = [promises EXCEPT ![c] = "pending"]
         /\ calls' = [calls EXCEPT ![c].pc = "awaitLoad", ![c].doc = <<c>>]
         /\ UNCHANGED transcriber

\* where a transcribe call goes when it returns: into the handler that
\* awaits transcribeAudio, or nowhere
AfterTranscribe(c) == IF calls[c].origin = "http" THEN "resume" ELSE "done"

\* transcribe up to `await fs.access(filePath)`
Transcribe(c) ==
    /\ Fresh(c)
    /\ calls' = [calls EXCEPT ![c] =
           [IdleCall EXCEPT !.op = "transcribe", !.pc = "awaitAccess",
                !.origin = "service"]]
    /\ UNCHANGED <<serviceVars, socketIo, recordingStore, client,
                   transcription>>

\* fs.access: the file is there and loadModel is entered, or the call
\* fails
FsAccess(c) ==
    /\ calls[c].op = "transcribe"
    /\ calls[c].pc = "awaitAccess"
    /\ \/ LoadModel(c)
       \/ /\ calls' = [calls EXCEPT ![c].pc = AfterTranscribe(c),
                  ![c].result = "FileNotFound"]
          /\ UNCHANGED transcription
    /\ UNCHANGED <<serviceVars, socketIo, recordingStore, client>>

\* the promise of an initializeModel() run settles: the placeholder body
\* resolves, loading a real model may reject
InitializeModel(p) ==
    /\ promises[p] = "pending"
    /\ \/ promises' = [promises EXCEPT ![p] = "resolved"]
       \/ promises' = [promises EXCEPT ![p] = "rejected"]
    /\ UNCHANGED <<serviceVars, socketIo, recordingStore, client, calls,
                   transcriber, isLoading, loadPromise>>

\* loadModel after `await this.loadPromise`, in the call that started the
\* load: the model is kept, or the promise is dropped; then the rest of
\* transcribe
LoadModelResume(c) ==
    /\ calls[c].op = "transcribe"
    /\ calls[c].pc = "awaitLoad"
    /\ promises[c] # "pending"
    /\ IF promises[c] = "resolved"
       THEN /\ transcriber' = "simulated-whisper"
            /\ calls' = [calls EXCEPT ![c].pc = AfterTranscribe(c),
                                      ![c].result = "ok"]
            /\ UNCHANGED loadPromise
       ELSE /\ loadPromise' = NoRef
            /\ calls' = [calls EXCEPT ![c].pc = AfterTranscribe(c),
                   ![c].result = "TranscriptionFailed"]
            /\ UNCHANGED transcriber
    /\ isLoading' = FALSE
    /\ UNCHANGED <<serviceVars, socketIo, recordingStore, client, promises>>

\* transcribe after `await this.loadModel()` in a call that was handed the
\* loaded model or the promise of another call's load
TranscribeResume(c) ==
    /\ calls[c].op = "transcribe"
    /\ \/ /\ calls[c].pc = "reuse"
          /\ calls' = [calls EXCEPT ![c].pc = AfterTranscribe(c),
                                      ![c].result = "ok"]
       \/ /\ calls[c].pc = "awaitShared"
          /\ promises[calls[c].doc[1]] # "pending"
          /\ calls' = [calls EXCEPT ![c].pc = AfterTranscribe(c),
                 ![c].result = IF promises[calls[c].doc[1]] = "resolved"
                               THEN "ok" ELSE "TranscriptionFailed"]
    /\ UNCHANGED <<serviceVars, socketIo, recordingStore, client,
                   transcription>>

\* -------------------------------------------------- recordings (index.ts)
\* the next free run of the upload and delete handlers
FreshRequest(q) ==
    /\ requests[q].pc = "idle"
    /\ \A r \in Requests : r < q => requests[r].pc # "idle"

\* recordings.findIndex(r => r.id === id): 0 stands for -1
FindIndex(id) ==
    IF \E i \in 1..Len(recordings) : recordingObjs[recordings[i]].id = id
    THEN CHOOSE i \in 1..Len(recordings) :
             /\ recordingObjs[recordings[i]].id = id
             /\ \A j \in 1..(i - 1) : recordingObjs[recordings[j]].id # id
    ELSE 0

\* a.splice(start, 1), positions counted from 1: nothing is removed when
\* start is beyond the end
Splice(a, start) ==
    IF start > Len(a) THEN a
    ELSE SubSeq(a, 1, start - 1) \o SubSeq(a, start + 1, Len(a))

\* POST /api/upload-recording up to `await fs.access(req.file.path)`; multer
\* has written the file before the handler runs
UploadVideoBlob(q, hasFile) ==
    /\ FreshRequest(q)
    /\ IF hasFile
       THEN /\ files' = files \cup {q}
            /\ requests' = [requests EXCEPT ![q] =
                   [IdleRequest EXCEPT !.op = "upload", !.pc = "awaitAccess"]]
       ELSE /\ requests' = [requests EXCEPT ![q] =
                   [IdleRequest EXCEPT !.op = "upload", !.pc = "done",
                        !.http = 400]]
            /\ UNCHANGED files
    /\ UNCHANGED <<recordings, recordingObjs>>
    /\ UNCHANGED <<serviceVars, socketIo, client, calls, transcription>>

\* fs.access settles: the recording is built, with the identifier uuidv4()
\* gives to this upload and to no other, and pushed; or 500
UploadAccess(q) ==
    /\ requests[q].op = "upload"
    /\ requests[q].pc = "awaitAccess"
    /\ \/ /\ recordingObjs' = [recordingObjs EXCEPT ![q] =
                  [id |-> q, path |-> q, transcriptStatus |-> "pending"]]
          /\ recordings' = Append(recordings, q)
          /\ requests' = [requests EXCEPT ![q].pc = "done", ![q].id = q,
                 ![q].recording = q, ![q].http = 200]
       \/ /\ requests' = [requests EXCEPT ![q].pc = "done", ![q].http = 500]
          /\ UNCHANGED <<recordings, recordingObjs>>
    /\ UNCHANGED files
    /\ UNCHANGED <<serviceVars, socketIo, client, calls, transcription>>

\* DELETE /api/recordings/:id up to `await fs.unlink(recording.path)`
DeleteRecordingById(q, id) ==
    /\ FreshRequest(q)
    /\ requests' = [requests EXCEPT ![q] =
           IF FindIndex(id) = 0
           THEN [IdleRequest EXCEPT !.op = "delete", !.pc = "done",
                     !.id = id, !.http = 404]
           ELSE [IdleRequest EXCEPT !.op = "delete", !.pc = "awaitUnlink",
                     !.id = id, !.recording = recordings[FindIndex(id)],
                     !.recordingIndex = FindIndex(id)]]
    /\ UNCHANGED <<recordings, recordingObjs, files>>
    /\ UNCHANGED <<serviceVars, socketIo, client, calls, transcription>>

\* fs.unlink settles and the handler goes on: the file is removed, or is
\* missing already (ENOENT), and the element at recordingIndex is spliced
\* out; or the unlink fails otherwise and 500 is answered
UnlinkFile(q) ==
    /\ requests[q].op = "delete"
    /\ requests[q].pc = "awaitUnlink"
    /\ \/ /\ files' = files \ {recordingObjs[requests[q].recording].path}
          /\ recordings' = Splice(recordings, requests[q].recordingIndex)
          /\ requests' = [requests EXCEPT ![q].pc = "done", ![q].http = 200]
       \/ /\ recordingObjs[requests[q].recording].path \in files
          /\ requests' = [requests EXCEPT ![q].pc = "done", ![q].http = 500]
          /\ UNCHANGED <<recordings, files>>
    /\ UNCHANGED recordingObjs
    /\ UNCHANGED <<serviceVars, socketIo, client, calls, transcription>>

\* faulty variant: a transcription in progress is not checked for
TranscribeRecordingUnguarded(c, id) ==
    /\ Fresh(c)
    /\ IF FindIndex(id) = 0
       THEN /\ calls' = [calls EXCEPT ![c] =
                   [IdleCall EXCEPT !.op = "transcribe", !.pc = "done",
                        !.origin = "http", !.body = <<id>>, !.http = 404]]
            /\ UNCHANGED recordingObjs
       ELSE /\ recordingObjs' = [recordingObjs EXCEPT
                   ![recordings[FindIndex(id)]].transcriptStatus = "processing"]
            /\ calls' = [calls EXCEPT ![c] =
                   [IdleCall EXCEPT !.op = "transcribe", !.pc = "awaitAccess",
                        !.origin = "http", !.body = <<id>>,
                        !.session = recordings[FindIndex(id)]]]
    /\ UNCHANGED <<recordings, files, requests>>
    /\ UNCHANGED <<serviceVars, socketIo, client, transcription>>

\* POST /api/recordings/:id/transcribe up to `await transcribeAudio(...)`,
\* which enters transcribe
TranscribeRecording(c, id) ==
    /\ Fresh(c)
    /\ IF FindIndex(id) = 0
       THEN /\ calls' = [calls EXCEPT ![c] =
                   [IdleCall EXCEPT !.op = "transcribe", !.pc = "done",
                        !.origin = "http", !.body = <<id>>, !.http = 404]]
            /\ UNCHANGED recordingObjs
       ELSE IF recordingObjs[recordings[FindIndex(id)]].transcriptStatus
                   = "processing"
       THEN /\ calls' = [calls EXCEPT ![c] =
                   [IdleCall EXCEPT !.op = "transcribe", !.pc = "done",
                        !.origin = "http", !.body = <<id>>,
                        !.session = recordings[FindIndex(id)], !.http = 400]]
            /\ UNCHANGED recordingObjs
       ELSE /\ recordingObjs' = [recordingObjs EXCEPT
                   ![recordings[FindIndex(id)]].transcriptStatus = "processing"]
            /\ calls' = [calls EXCEPT ![c] =
                   [IdleCall EXCEPT !.op = "transcribe", !.pc = "awaitAccess",
                        !.origin = "http", !.body = <<id>>,
                        !.session = recordings[FindIndex(id)]]]
    /\ UNCHANGED <<recordings, files, requests>>
    /\ UNCHANGED <<serviceVars, socketIo, client, transcription>>

\* faulty variant: a failed transcription leaves the status as it is
TranscribeRecordingResumeStuck(c) ==
    /\ calls[c].op = "transcribe"
    /\ calls[c].origin = "http"
    /\ calls[c].pc = "resume"
    /\ recordingObjs' = [recordingObjs EXCEPT
           ![calls[c].session].transcriptStatus =
               IF calls[c].result = "ok" THEN "completed" ELSE @]
    /\ calls' = [calls EXCEPT ![c].pc = "done",
           ![c].http = IF calls[c].result = "ok" THEN 200 ELSE 500]
    /\ UNCHANGED <<recordings, files, requests>>
    /\ UNCHANGED <<serviceVars, socketIo, client, transcription>>

\* after `await transcribeAudio(...)`: completed and 200, or in the catch
\* failed and 500
TranscribeRecordingResume(c) ==
    /\ calls[c].op = "transcribe"
    /\ calls[c].origin = "http"
    /\ calls[c].pc = "resume"
    /\ recordingObjs' = [recordingObjs EXCEPT
           ![calls[c].session].transcriptStatus =
               IF calls[c].result = "ok" THEN "completed" ELSE "failed"]
    /\ calls' = [calls EXCEPT ![c].pc = "done",
           ![c].http = IF calls[c].result = "ok" THEN 200 ELSE 500]
    /\ UNCHANGED <<recordings, files, requests>>
    /\ UNCHANGED <<serviceVars, socketIo, client, transcription>>

\* --------------------------------------------------------------- frontend
\* the socket of the dashboard's WebSocketService
ClientSocket == "k1"

\* what an awaited ProctorApiService call gives: a response with data, a
\* response without (the backend answers { success, session }), or a throw
ApiResponses ==
    {[kind |-> "data",
      data |-> [id |-> sid, status |-> "active", endTime |-> NoTime]] :
         sid \in SessionIds}
    \cup {[kind |-> "nodata", data |-> NoSession],
          [kind |-> "throw", data |-> NoSession]}

\* startSession up to `await ProctorApiService.startSession(...)`
HookStartSession(c) ==
    /\ Fresh(c)
    /\ hook' = [hook EXCEPT !.loading = TRUE, !.error = ""]
    /\ calls' = [calls EXCEPT ![c] =
           [IdleCall EXCEPT !.op = "hookStart", !.pc = "awaitApi",
                !.origin = "hook"]]
    /\ UNCHANGED <<serviceVars, transcription, recordingStore, delivered,
                   rooms, socketConnected, joinEffect>>

\* the call settles: setSession, or setError; finally setLoading(false).
\* A new session object makes the joinSession effect due.
HookStartResume(c, response) ==
    /\ calls[c].op = "hookStart"
    /\ calls[c].pc = "awaitApi"
    /\ response \in ApiResponses
    /\ hook' = CASE response.kind = "data" ->
                     [hook EXCEPT !.session = response.data, !.loading = FALSE]
                [] response.kind = "nodata" ->
                     [hook EXCEPT !.error = "Failed to start session",
                                  !.loading = FALSE]
                [] OTHER ->
                     [hook EXCEPT !.error = "Server error", !.loading = FALSE]
    /\ joinEffect' = (joinEffect \/ response.kind = "data")
    /\ calls' = [calls EXCEPT ![c].pc = "done",
           ![c].result = IF response.kind = "data" THEN "ok" ELSE "failed"]
    /\ UNCHANGED <<serviceVars, transcription, recordingStore, delivered,
                   rooms, socketConnected>>

\* endSession up to `await ProctorApiService.endSession(session.id)`:
\* nothing without a session
HookEndSession(c) ==
    /\ Fresh(c)
    /\ IF hook.session = NoSession
       THEN /\ calls' = [calls EXCEPT ![c] =
                   [IdleCall EXCEPT !.op = "hookEnd", !.pc = "done",
                        !.origin = "hook", !.result = "noSession"]]
            /\ UNCHANGED hook
       ELSE /\ hook' = [hook EXCEPT !.loading = TRUE]
            /\ calls' = [calls EXCEPT ![c] =
                   [IdleCall EXCEPT !.op = "hookEnd", !.pc = "awaitApi",
                        !.origin = "hook", !.sessionId = hook.session.id]]
    /\ UNCHANGED <<serviceVars, transcription, recordingStore, delivered,
                   rooms, socketConnected, joinEffect>>

\* faulty variant: loading is reset on success only
HookEndResumeNoFinally(c, succeeded) ==
    /\ calls[c].op = "hookEnd"
    /\ calls[c].pc = "awaitApi"
    /\ hook' = IF succeeded
               THEN [hook EXCEPT !.loading = FALSE,
                        !.session = IF @ = NoSession THEN @
                                    ELSE [@ EXCEPT !.status = "ended",
                                                   !.endTime = now]]
               ELSE [hook EXCEPT !.error = "Failed to end session"]
    /\ joinEffect' = (joinEffect \/ succeeded)
    /\ calls' = [calls EXCEPT ![c].pc = "done",
           ![c].result = IF succeeded THEN "ok" ELSE "failed"]
    /\ UNCHANGED <<serviceVars, transcription, recordingStore, delivered,
                   rooms, socketConnected>>

\* the call settles: the session is marked ended with the time of the
\* clock, or setError; finally setLoading(false)
HookEndResume(c, succeeded) ==
    /\ calls[c].op = "hookEnd"
    /\ calls[c].pc = "awaitApi"
    /\ hook' = IF succeeded
               THEN [hook EXCEPT !.loading = FALSE,
                        !.session = IF @ = NoSession THEN @
                                    ELSE [@ EXCEPT !.status = "ended",
                                                   !.endTime = now]]
               ELSE [hook EXCEPT !.error = "Failed to end session",
                                 !.loading = FALSE]
    /\ joinEffect' = (joinEffect \/ succeeded)
    /\ calls' = [calls EXCEPT ![c].pc = "done",
           ![c].result = IF succeeded THEN "ok" ELSE "failed"]
    /\ UNCHANGED <<serviceVars, transcription, recordingStore, delivered,
                   rooms, socketConnected>>

\* refreshSession up to `await ProctorApiService.getSessionStatus(...)`:
\* nothing without a sessionId
HookRefreshSession(c, sessionId) ==
    /\ Fresh(c)
    /\ IF sessionId = ""
       THEN /\ calls' = [calls EXCEPT ![c] =
                   [IdleCall EXCEPT !.op = "hookRefresh", !.pc = "done",
                        !.origin = "hook", !.result = "noSession"]]
            /\ UNCHANGED hook
       ELSE /\ hook' = [hook EXCEPT !.loading = TRUE]
            /\ calls' = [calls EXCEPT ![c] =
                   [IdleCall EXCEPT !.op = "hookRefresh", !.pc = "awaitApi",
                        !.origin = "hook", !.sessionId = sessionId]]
    /\ UNCHANGED <<serviceVars, transcription, recordingStore, delivered,
                   rooms, socketConnected, joinEffect>>

\* the call settles: setSession when there is data, setError on a throw;
\* finally setLoading(false)
HookRefreshResume(c, response) ==
    /\ calls[c].op = "hookRefresh"
    /\ calls[c].pc = "awaitApi"
    /\ response \in ApiResponses
    /\ hook' = CASE response.kind = "data" ->
                     [hook EXCEPT !.session = response.data, !.loading = FALSE]
                [] response.kind = "nodata" ->
                     [hook EXCEPT !.loading = FALSE]
                [] OTHER ->
                     [hook EXCEPT !.error = "Failed to refresh session",
                                  !.loading = FALSE]
    /\ joinEffect' = (joinEffect \/ response.kind = "data")
    /\ calls' = [calls EXCEPT ![c].pc = "done",
           ![c].result = IF response.kind = "throw" THEN "failed" ELSE "ok"]
    /\ UNCHANGED <<serviceVars, transcription, recordingStore, delivered,
                   rooms, socketConnected>>

\* the 'connect' event of the socket created by connect(), also after a
\* reconnection: the handler logs
SocketConnects ==
    /\ ~socketConnected
    /\ socketConnected' = TRUE
    /\ UNCHANGED <<serviceVars, transcription, recordingStore, delivered,
                   calls, rooms, hook, joinEffect>>

\* the connection drops: the handler logs, and the server's socket leaves
\* its rooms
SocketDisconnects ==
    /\ socketConnected
    /\ socketConnected' = FALSE
    /\ rooms' = [rooms EXCEPT ![ClientSocket] = {}]
    /\ UNCHANGED <<serviceVars, transcription, recordingStore, delivered,
                   calls, hook, joinEffect>>

\* the Dashboard effect on [session]: joinSession(session.id), which emits
\* 'join-session' when the socket is connected and else only warns
JoinSessionEffect ==
    /\ joinEffect
    /\ joinEffect' = FALSE
    /\ rooms' = IF hook.session # NoSession /\ socketConnected
                THEN [rooms EXCEPT ![ClientSocket] = @ \cup {hook.session.id}]
                ELSE rooms
    /\ UNCHANGED <<serviceVars, transcription, recordingStore, delivered,
                   calls, hook, socketConnected>>

\* ---------------------------------------------------------- specification
StartBodies ==
    {[userId |-> u, externalCallId |-> "call-42", callPlatform |-> "meet"] :
        u \in UserIds}

GazeSamples ==
    {[x |-> 0, y |-> 0, confidence |-> 9, lookingAway |-> TRUE, duration |-> 7000]}

AudioSamples ==
    {[volume |-> 5, frequency |-> <<>>, multipleVoices |-> TRUE,
      backgroundNoise |-> 0]}

Next ==
    \/ \E c \in Calls, b \in StartBodies, id \in SessionIds :
           StartSession(c, "Bearer key", b, id)
    \/ \E c \in Calls : DbSaveSession(c)
    \/ \E c \in Calls : StartResume(c)
    \/ \E c \in Calls, sid \in SessionIds, t \in Times :
           EndSession(c, "Bearer key", sid, t)
    \/ \E c \in Calls : DbUpdateEnd(c)
    \/ \E c \in Calls : EndResume(c)
    \/ \E c \in Calls, sid \in SessionIds, g \in GazeSamples, t \in Times :
           SocketMonitoringData(c, "k1", "Bearer key", sid, <<g>>, <<>>, t)
    \/ \E c \in Calls, g \in GazeSamples, t \in Times : GazeTimerFires(c, g, t)
    \/ \E c \in Calls, tm \in Calls, a \in AudioSamples, t \in Times :
           AudioTimerFires(c, tm, a, t)
    \/ \E c \in Calls : DbSaveEvent(c)
    \/ \E c \in Calls : RecordResume(c)

Spec == Init /\ [][Next]_vars

\* The event loop runs the continuation of an await once its promise has
\* settled. Nothing obliges the store to settle one: no handler sets a
\* timeout on save or findOneAndUpdate, and mongoose.connect is called
\* without options.
Continuations ==
    \A c \in Calls :
        /\ WF_vars(StartResume(c))
        /\ WF_vars(EndResume(c))
        /\ WF_vars(RecordResume(c))

SpecLive == Init /\ [][Next]_vars /\ Continuations

\* the lifecycle together with the recording handlers
UploadTypes == {"video", "audio"}

NextRecording ==
    \/ Next
    \/ \E c \in Calls, sid \in SessionIds, rt \in UploadTypes :
           UploadRecording(c, "Bearer key", sid, rt, TRUE)
    \/ \E c \in Calls : SaveRecording(c)
    \/ \E c \in Calls : DbUpdatePath(c)
    \/ \E c \in Calls : UploadResume(c)
    \/ \E c \in Calls : ProcessVideoRecording(c)
    \/ \E c \in Calls : DbUpdateProcessed(c)
    \/ \E c \in Calls : UploadProcessedResume(c)
    \/ \E c \in Calls, sid \in SessionIds, rt \in UploadTypes :
           DeleteRecording(c, "Bearer key", sid, rt)
    \/ \E c \in Calls : DbFindSession(c)
    \/ \E c \in Calls : UnlinkRecording(c)
    \/ \E c \in Calls : DbUnsetPath(c)
    \/ \E c \in Calls : DeleteResume(c)

SpecRecording == Init /\ [][NextRecording]_vars

\* a complete start request
AuthBody ==
    [userId |-> "u1", externalCallId |-> "call-42", callPlatform |-> "meet"]

\* one session and client-pushed samples on both sides of each rule, the
\* clock standing still
ClassifyGaze ==
    {[x |-> 0, y |-> 0, confidence |-> 9, lookingAway |-> TRUE, duration |-> 5000],
     [x |-> 0, y |-> 0, confidence |-> 7, lookingAway |-> TRUE, duration |-> 5001],
     [x |-> 0, y |-> 0, confidence |-> 9, lookingAway |-> FALSE, duration |-> 9000]}

ClassifyAudio ==
    {[volume |-> 0, frequency |-> <<>>, multipleVoices |-> TRUE,
      backgroundNoise |-> 0],
     [volume |-> 9, frequency |-> <<440>>, multipleVoices |-> TRUE,
      backgroundNoise |-> 3],
     [volume |-> 9, frequency |-> <<440>>, multipleVoices |-> FALSE,
      backgroundNoise |-> 3]}

\* an optional argument: undefined or a value
Optional(S) == {<<>>} \cup {<<x>> : x \in S}

NextClassify ==
    \/ \E c \in Calls, b \in StartBodies :
           StartSession(c, "Bearer key", b, "s1")
    \/ \E c \in Calls : DbSaveSession(c)
    \/ \E c \in Calls : StartResume(c)
    \/ \E c \in Calls, g \in Optional(ClassifyGaze),
          a \in Optional(ClassifyAudio) :
           SocketMonitoringData(c, "k1", "Bearer key", "s1", g, a, now)
    \/ \E c \in Calls : DbSaveEvent(c)
    \/ \E c \in Calls : RecordResume(c)

SpecClassify == Init /\ [][NextClassify]_vars

\* sessions, clients joining and leaving rooms, and records from clients
\* and from the sampling timers
NextBroadcast ==
    \/ \E c \in Calls, b \in StartBodies, id \in SessionIds :
           StartSession(c, "Bearer key", b, id)
    \/ \E c \in Calls : DbSaveSession(c)
    \/ \E c \in Calls : StartResume(c)
    \/ \E k \in Sockets, sid \in SessionIds : JoinSession(k, sid)
    \/ \E k \in Sockets : Disconnect(k)
    \/ \E c \in Calls, k \in Sockets, sid \in SessionIds, g \in GazeSamples :
           SocketMonitoringData(c, k, "", sid, <<g>>, <<>>, now)
    \/ \E c \in Calls, g \in GazeSamples : GazeTimerFires(c, g, now)
    \/ \E c \in Calls, tm \in Calls, a \in AudioSamples :
           AudioTimerFires(c, tm, a, now)
    \/ \E c \in Calls : DbSaveEvent(c)
    \/ \E c \in Calls : RecordResume(c)

SpecBroadcast == Init /\ [][NextBroadcast]_vars

\* one session, clients joining and leaving the rooms of both identifiers,
\* and samples pushed by client k1
NextDelivery ==
    \/ \E c \in Calls, b \in StartBodies :
           StartSession(c, "Bearer key", b, "s1")
    \/ \E c \in Calls : DbSaveSession(c)
    \/ \E c \in Calls : StartResume(c)
    \/ \E k \in Sockets, sid \in SessionIds : JoinSession(k, sid)
    \/ \E k \in Sockets : Disconnect(k)
    \/ \E c \in Calls, g \in GazeSamples :
           SocketMonitoringData(c, "k1", "", "s1", <<g>>, <<>>, now)
    \/ \E c \in Calls : DbSaveEvent(c)
    \/ \E c \in Calls : RecordResume(c)

SpecDelivery == Init /\ [][NextDelivery]_vars

\* one session, clients in its room, and webhook events of every type about
\* the call of the session
WebhookEvents ==
    {[platform |-> "meet", callId |-> "call-42", eventType |-> e,
      timestamp |-> NoTime] : e \in WebhookEventTypes \cup {"recording_ready"}}

NextWebhook ==
    \/ \E c \in Calls : StartSession(c, "Bearer key", AuthBody, "s1")
    \/ \E c \in Calls : DbSaveSession(c)
    \/ \E c \in Calls : StartResume(c)
    \/ \E k \in Sockets : JoinSession(k, "s1")
    \/ \E c \in Calls, T \in SUBSET Sockets, d \in WebhookEvents :
           HandleExternalCallWebhook(c, T, d, now)

SpecWebhook == Init /\ [][NextWebhook]_vars

\* The process after a restart: the index is empty again, the store holds
\* the sessions of earlier runs, some of them never ended.
StoredDoc(id, userId, status) ==
    [sessionId |-> id, userId |-> userId, externalCallId |-> "call-41",
     callPlatform |-> "zoom", status |-> status,
     endTime |-> IF status = "ended" THEN 0 ELSE NoTime,
     recordingPaths |-> EmptyPaths]

StoredSessions ==
    {<<>>}
    \cup {<<StoredDoc("p1", "u1", st1), StoredDoc("p2", "u2", st2)>> :
              st1 \in {"active", "ended"}, st2 \in {"active", "ended"}}

InitRestart ==
    /\ sessionDocs \in StoredSessions
    /\ activeSessions = <<>>
    /\ objs = [c \in Calls |-> NoObj]
    /\ monitoringDocs = <<>>
    /\ calls = [c \in Calls |-> IdleCall]
    /\ now = 0
    /\ gaze = [isTracking |-> FALSE, trackingInterval |-> NoRef]
    /\ audioInterval = NoRef
    /\ audioTimers = {}
    /\ rooms = [k \in Sockets |-> {}]
    /\ delivered = EmptyBag
    /\ transcriber = NoModel
    /\ isLoading = FALSE
    /\ loadPromise = NoRef
    /\ promises = [c \in Calls |-> "none"]
    /\ recordings = <<>>
    /\ recordingObjs = [q \in Requests |-> NoRecording]
    /\ files = {}
    /\ requests = [q \in Requests |-> IdleRequest]
    /\ hook = [session |-> NoSession, loading |-> FALSE, error |-> ""]
    /\ socketConnected = FALSE
    /\ joinEffect = FALSE

NextHistory ==
    \/ \E c \in Calls, id \in {"s1", "p1"} :
           StartSession(c, "Bearer key", AuthBody, id)
    \/ \E c \in Calls : DbSaveSession(c)
    \/ \E c \in Calls : StartResume(c)
    \/ \E c \in Calls, sid \in {"s1", "p1"} :
           EndSession(c, "Bearer key", sid, now)
    \/ \E c \in Calls : DbUpdateEnd(c)
    \/ \E c \in Calls : EndResume(c)
    \/ \E c \in Calls, u \in UserIds :
           GetSessionHistoryHandler(c, "Bearer key", u)
    \/ \E c \in Calls : DbFindHistory(c)
    \/ \E c \in Calls : HistoryResume(c)

SpecHistory == InitRestart /\ [][NextHistory]_vars

\* the lifecycle and callers that keep the result of getAllActiveSessions
NextList ==
    \/ \E c \in Calls, b \in StartBodies, id \in SessionIds :
           StartSession(c, "Bearer key", b, id)
    \/ \E c \in Calls : DbSaveSession(c)
    \/ \E c \in Calls : StartResume(c)
    \/ \E c \in Calls, sid \in SessionIds :
           EndSession(c, "Bearer key", sid, now)
    \/ \E c \in Calls : DbUpdateEnd(c)
    \/ \E c \in Calls : EndResume(c)
    \/ \E c \in Calls : GetAllActiveSessionsCall(c)

SpecList == Init /\ [][NextList]_vars

\* one session that is started and ended, and uploads of valid and invalid
\* types, with and without a file, for active and unknown sessions
NextUpload ==
    \/ \E c \in Calls : StartSession(c, "Bearer key", AuthBody, "s1")
    \/ \E c \in Calls : DbSaveSession(c)
    \/ \E c \in Calls : StartResume(c)
    \/ \E c \in Calls : EndSession(c, "Bearer key", "s1", now)
    \/ \E c \in Calls : DbUpdateEnd(c)
    \/ \E c \in Calls : EndResume(c)
    \/ \E c \in Calls, sid \in SessionIds, rt \in {"video", "audio", "bogus"},
          hasFile \in BOOLEAN :
           UploadRecording(c, "Bearer key", sid, rt, hasFile)
    \/ \E c \in Calls : SaveRecording(c)
    \/ \E c \in Calls : DbUpdatePath(c)
    \/ \E c \in Calls : UploadResume(c)
    \/ \E c \in Calls : ProcessVideoRecording(c)
    \/ \E c \in Calls : DbUpdateProcessed(c)
    \/ \E c \in Calls : UploadProcessedResume(c)

SpecUpload == Init /\ [][NextUpload]_vars

\* GET requests for the information and the recordings of a session that
\* was started and has a recording uploaded, and of unknown sessions
GetPaths == {<<sid, x>> : sid \in SessionIds, x \in {"info", "video", "audio"}}

NextRoutes ==
    \/ \E c \in Calls : StartSession(c, "Bearer key", AuthBody, "s1")
    \/ \E c \in Calls : DbSaveSession(c)
    \/ \E c \in Calls : StartResume(c)
    \/ \E c \in Calls : UploadRecording(c, "Bearer key", "s1", "audio", TRUE)
    \/ \E c \in Calls : SaveRecording(c)
    \/ \E c \in Calls : DbUpdatePath(c)
    \/ \E c \in Calls : UploadResume(c)
    \/ \E c \in Calls, path \in GetPaths : RouterGet(c, "Bearer key", path)
    \/ \E c \in Calls : DbFindRecording(c)
    \/ \E c \in Calls : ReadRecording(c)

SpecRoutes == Init /\ [][NextRoutes]_vars

\* overlapping transcribe calls on the one TranscriptionService
NextTranscribe ==
    \/ \E c \in Calls : Transcribe(c)
    \/ \E c \in Calls : FsAccess(c)
    \/ \E p \in Calls : InitializeModel(p)
    \/ \E c \in Calls : LoadModelResume(c)
    \/ \E c \in Calls : TranscribeResume(c)

SpecTranscribe == Init /\ [][NextTranscribe]_vars

\* uploads and deletes of the recordings of index.ts, overlapping
RecordingIds == Requests

NextBlobs ==
    \/ \E q \in Requests, hasFile \in BOOLEAN : UploadVideoBlob(q, hasFile)
    \/ \E q \in Requests : UploadAccess(q)
    \/ \E q \in Requests, id \in RecordingIds : DeleteRecordingById(q, id)
    \/ \E q \in Requests : UnlinkFile(q)

SpecBlobs == Init /\ [][NextBlobs]_vars

\* the state after two uploads were answered: two pending recordings
InitUploaded ==
    /\ recordings = <<1, 2>>
    /\ recordingObjs = [q \in Requests |->
           IF q \in {1, 2}
           THEN [id |-> q, path |-> q, transcriptStatus |-> "pending"]
           ELSE NoRecording]
    /\ files = {1, 2}
    /\ requests = [q \in Requests |->
           IF q \in {1, 2}
           THEN [IdleRequest EXCEPT !.op = "upload", !.pc = "done", !.id = q,
                     !.recording = q, !.http = 200]
           ELSE IdleRequest]
    /\ activeSessions = <<>>
    /\ objs = [c \in Calls |-> NoObj]
    /\ sessionDocs = <<>>
    /\ monitoringDocs = <<>>
    /\ calls = [c \in Calls |-> IdleCall]
    /\ now = 0
    /\ gaze = [isTracking |-> FALSE, trackingInterval |-> NoRef]
    /\ audioInterval = NoRef
    /\ audioTimers = {}
    /\ rooms = [k \in Sockets |-> {}]
    /\ delivered = EmptyBag
    /\ transcriber = NoModel
    /\ isLoading = FALSE
    /\ loadPromise = NoRef
    /\ promises = [c \in Calls |-> "none"]
    /\ hook = [session |-> NoSession, loading |-> FALSE, error |-> ""]
    /\ socketConnected = FALSE
    /\ joinEffect = FALSE

\* overlapping transcribe requests for the uploaded recordings and for an
\* unknown one
NextTranscripts ==
    \/ \E c \in Calls, id \in {1, 2, 3} : TranscribeRecording(c, id)
    \/ \E c \in Calls : FsAccess(c)
    \/ \E p \in Calls : InitializeModel(p)
    \/ \E c \in Calls : LoadModelResume(c)
    \/ \E c \in Calls : TranscribeResume(c)
    \/ \E c \in Calls : TranscribeRecordingResume(c)

SpecTranscripts == InitUploaded /\ [][NextTranscripts]_vars

\* fs.access calls back, the promise of initializeModel() settles, and the
\* event loop runs the continuation of every settled await
TranscriptionSettles ==
    \A c \in Calls :
        /\ WF_vars(FsAccess(c))
        /\ WF_vars(InitializeModel(c))
        /\ WF_vars(LoadModelResume(c))
        /\ WF_vars(TranscribeResume(c))
        /\ WF_vars(TranscribeRecordingResume(c))

SpecTranscriptsLive ==
    InitUploaded /\ [][NextTranscripts]_vars /\ TranscriptionSettles

\* the dashboard: the hook's operations, overlapping, and its socket
NextDashboard ==
    \/ \E c \in Calls : HookStartSession(c)
    \/ \E c \in Calls, r \in ApiResponses : HookStartResume(c, r)
    \/ \E c \in Calls : HookEndSession(c)
    \/ \E c \in Calls, succeeded \in BOOLEAN : HookEndResume(c, succeeded)
    \/ \E c \in Calls, sid \in {"", "s1"} : HookRefreshSession(c, sid)
    \/ \E c \in Calls, r \in ApiResponses : HookRefreshResume(c, r)
    \/ SocketConnects
    \/ SocketDisconnects
    \/ JoinSessionEffect

SpecDashboard == Init /\ [][NextDashboard]_vars

\* React runs a due effect after the render, and socket.io-client goes on
\* trying to connect; nothing obliges the connection to drop
DashboardRuns ==
    /\ WF_vars(JoinSessionEffect)
    /\ WF_vars(SocketConnects)

SpecDashboardLive == Init /\ [][NextDashboard]_vars /\ DashboardRuns

\* start requests with every combination of present, empty and unknown
\* fields in the body
RequestBodies ==
    [userId : {"", "u1"}, externalCallId : {"", "call-42"},
     callPlatform : {"", "meet", "skype"}]

NextStart ==
    \/ \E c \in Calls, b \in RequestBodies, id \in SessionIds :
           StartSession(c, "Bearer key", b, id)
    \/ \E c \in Calls : DbSaveSession(c)
    \/ \E c \in Calls : StartResume(c)

SpecStart == Init /\ [][NextStart]_vars

\* every entry point of clients, with and without the credential
NextAuth ==
    \/ \E c \in Calls, h \in AuthHeaders, id \in SessionIds :
           StartSession(c, h, AuthBody, id)
    \/ \E c \in Calls : DbSaveSession(c)
    \/ \E c \in Calls : StartResume(c)
    \/ \E c \in Calls, h \in AuthHeaders, sid \in SessionIds :
           EndSession(c, h, sid, now)
    \/ \E c \in Calls : DbUpdateEnd(c)
    \/ \E c \in Calls : EndResume(c)
    \/ \E c \in Calls, h \in AuthHeaders, sid \in SessionIds :
           GetSessionStatusHandler(c, h, sid)
    \/ \E c \in Calls, h \in AuthHeaders : GetActiveSessionsHandler(c, h)
    \/ \E c \in Calls, h \in AuthHeaders :
           GetSessionHistoryHandler(c, h, "u1")
    \/ \E c \in Calls : DbFindHistory(c)
    \/ \E c \in Calls : HistoryResume(c)
    \/ \E c \in Calls, h \in AuthHeaders, sid \in SessionIds,
          g \in GazeSamples :
           SocketMonitoringData(c, "k1", h, sid, <<g>>, <<>>, now)
    \/ \E c \in Calls : DbSaveEvent(c)
    \/ \E c \in Calls : RecordResume(c)
    \/ \E c \in Calls, h \in AuthHeaders, sid \in SessionIds :
           UploadRecording(c, h, sid, "audio", TRUE)
    \/ \E c \in Calls : SaveRecording(c)
    \/ \E c \in Calls : DbUpdatePath(c)
    \/ \E c \in Calls : UploadResume(c)

SpecAuth == Init /\ [][NextAuth]_vars


\* ----------------------------------------------------------------- claims
StartCalls == {c \in Calls : calls[c].op = "start"}
EndCalls == {c \in Calls : calls[c].op = "end"}
RecordCalls == {c \in Calls : calls[c].op = "record"}

DocIds(docs) == {docs[i].sessionId : i \in 1..Len(docs)}

\* a session is marked ended once its object or its document says so
MarkedEnded(sid) ==
    \/ \E o \in Calls : objs[o].id = sid /\ objs[o].status = "ended"
    \/ \E i \in 1..Len(sessionDocs) :
           sessionDocs[i].sessionId = sid /\ sessionDocs[i].status = "ended"

\* C1: no monitoring event of a session is persisted once the session has
\* been marked ended, in memory or in the durable store: every step that
\* appends an event does so for a session not marked ended.
C1_NoEventAfterEnded ==
    [][Len(monitoringDocs') > Len(monitoringDocs) =>
           ~MarkedEnded(monitoringDocs'[Len(monitoringDocs')].sessionId)]_vars

\* C2: of two end calls on the same session identifier that both came back
\* with success or SessionNotFound, only one succeeded.
C2_OneEndSucceeds ==
    \A c1 \in EndCalls, c2 \in EndCalls :
        (/\ c1 # c2
         /\ calls[c1].sessionId = calls[c2].sessionId
         /\ calls[c1].result = "ok"
         /\ calls[c2].result \in {"ok", "SessionNotFound"})
        => calls[c2].result = "SessionNotFound"

\* C3: a record call whose session identifier is not in the active index
\* fails at once with SessionNotFound and persists nothing; an event is only
\* ever persisted by a record call that found its session.
C3_RecordUnknownFails ==
    [][/\ \A c \in Calls :
             (/\ calls[c].pc = "idle"
              /\ calls'[c].op = "record"
              /\ ~MapHas(activeSessions, calls'[c].sessionId))
             => /\ calls'[c].result = "SessionNotFound"
                /\ calls'[c].pc = "done"
                /\ monitoringDocs' = monitoringDocs
       /\ monitoringDocs' # monitoringDocs =>
             \E c \in Calls :
                 /\ calls[c].op = "record"
                 /\ calls[c].pc = "awaitSave"
                 /\ calls[c].session # NoRef
                 /\ monitoringDocs' = Append(monitoringDocs, calls[c].doc[1])
                 /\ calls[c].doc[1].sessionId = calls[c].sessionId]_vars

C3_Witness ==
    \E c \in RecordCalls, e \in EndCalls :
        /\ calls[c].result = "SessionNotFound"
        /\ calls[e].sessionId = calls[c].sessionId
        /\ calls[e].result = "ok"
        /\ e < c

\* C4: an authenticated end call whose session identifier is not in the
\* active index fails at once with SessionNotFound and changes neither the
\* index, nor a session object, nor a durable session record.
C4_EndUnknownFails ==
    [][\A c \in Calls :
           (/\ calls[c].pc = "idle"
            /\ calls'[c].op = "end"
            /\ calls'[c].http \notin {400, 401}
            /\ ~MapHas(activeSessions, calls'[c].sessionId))
           => /\ calls'[c].result = "SessionNotFound"
              /\ calls'[c].pc = "done"
              /\ activeSessions' = activeSessions
              /\ sessionDocs' = sessionDocs
              /\ objs' = objs]_vars

C4_Witness ==
    \E c \in EndCalls, e \in EndCalls :
        /\ e < c
        /\ calls[e].sessionId = calls[c].sessionId
        /\ calls[e].result = "ok"
        /\ calls[c].result = "SessionNotFound"

\* C5: once an end call has returned successfully, the status lookup of its
\* session finds nothing, and the owner's history holds the session with
\* status ended and an end time.
C5_EndedVisibleInHistoryOnly ==
    \A c \in EndCalls :
        calls[c].result = "ok" =>
            /\ GetSessionStatus(calls[c].sessionId) = NoRef
            /\ LET h == GetSessionHistory(objs[calls[c].session].userId)
               IN  \E i \in 1..Len(h) :
                       /\ h[i].id = calls[c].sessionId
                       /\ h[i].status = "ended"
                       /\ h[i].endTime # NoTime

C5_Witness ==
    \E c \in EndCalls, d \in Calls :
        /\ calls[c].result = "ok"
        /\ d > c
        /\ calls[d].pc = "done"

\* C6: once an end call has returned successfully, the list of active
\* sessions does not contain its session.
C6_EndedNotListed ==
    \A c \in EndCalls :
        calls[c].result = "ok" =>
            \A i \in 1..Len(GetAllActiveSessions) :
                objs[GetAllActiveSessions[i]].id # calls[c].sessionId

\* an end that returned while a record of the same session was in flight
C6_Witness ==
    \E c \in EndCalls, r \in RecordCalls :
        /\ calls[c].result = "ok"
        /\ calls[r].sessionId = calls[c].sessionId
        /\ calls[r].pc = "awaitSave"

Registered(c) == \E i \in 1..Len(activeSessions) : activeSessions[i].value = c

Sampled(c) == gaze.trackingInterval = c \/ c \in audioTimers \/ audioInterval = c

\* C7: a start whose durable write failed answers 500 with a storage error,
\* and its session is neither registered in the index nor sampled; the step
\* that reports the failure leaves index and samplers unchanged; a session
\* is registered or sampled only by a start whose write succeeded, the
\* document being in the store by then.
C7_StartAllOrNothing ==
    [][\A c \in Calls :
           /\ (calls'[c].op = "start" /\ calls'[c].result = "StorageError")
                  => /\ calls'[c].http = 500
                     /\ ~Registered(c)'
                     /\ ~Sampled(c)'
           /\ (calls[c].op = "start" /\ calls[c].pc = "resume" /\ ~calls[c].ok
               /\ calls'[c].pc = "done")
                  => /\ calls'[c].result = "StorageError"
                     /\ UNCHANGED <<activeSessions, gaze, audioInterval,
                                    audioTimers>>
           /\ (calls'[c].op = "start" /\ (Registered(c)' \/ Sampled(c)'))
                  => /\ calls'[c].ok
                     /\ calls'[c].pc = "done"
                     /\ calls'[c].sessionId \in DocIds(sessionDocs')]_vars

C7_Witness ==
    \E c \in StartCalls, d \in StartCalls :
        /\ calls[c].result = "StorageError"
        /\ calls[c].http = 500
        /\ calls[d].result = "ok"

\* C8: a start returns a session only if its identifier was in neither the
\* store nor the index when the write was accepted (and identifiers never
\* leave the store, so neither was it before the call); at the return the
\* session is active, has no end time, is in the store, is what the status
\* lookup returns and is in the list of active sessions.
C8_StartReturnsFreshActive ==
    [][/\ DocIds(sessionDocs) \subseteq DocIds(sessionDocs')
       /\ MapKeys(activeSessions) \subseteq DocIds(sessionDocs)
       /\ \A c \in Calls :
           /\ (calls[c].op = "start" /\ calls[c].pc = "awaitSave"
               /\ calls'[c].ok)
                  => /\ calls[c].sessionId \notin DocIds(sessionDocs)
                     /\ ~MapHas(activeSessions, calls[c].sessionId)
           /\ (calls[c].op = "start" /\ calls[c].result # "ok"
               /\ calls'[c].result = "ok")
                  => /\ calls[c].ok
                     /\ objs'[c].id = calls[c].sessionId
                     /\ objs'[c].status = "active"
                     /\ objs'[c].endTime = NoTime
                     /\ GetSessionStatus(calls[c].sessionId)' = c
                     /\ \E i \in 1..Len(GetAllActiveSessions') :
                            GetAllActiveSessions'[i] = c
                     /\ \E i \in 1..Len(sessionDocs') :
                            /\ sessionDocs'[i].sessionId = calls[c].sessionId
                            /\ sessionDocs'[i].status = "active"
                            /\ sessionDocs'[i].endTime = NoTime]_vars

C8_Witness ==
    \E c \in StartCalls :
        /\ calls[c].result = "ok"
        /\ GetSessionStatus(calls[c].sessionId) = c

\* C9: no two entries of the index share a key, no two documents of the
\* store share a session identifier, and no two successful starts returned
\* the same identifier.
C9_UniqueIdentifiers ==
    /\ \A i, j \in 1..Len(activeSessions) :
           activeSessions[i].key = activeSessions[j].key => i = j
    /\ \A i, j \in 1..Len(sessionDocs) :
           sessionDocs[i].sessionId = sessionDocs[j].sessionId => i = j
    /\ \A c1, c2 \in StartCalls :
           (/\ calls[c1].result = "ok"
            /\ calls[c2].result = "ok"
            /\ calls[c1].sessionId = calls[c2].sessionId) => c1 = c2

\* two starts drew the same identifier; one returned it, the other failed
C9_Witness ==
    \E c1, c2 \in StartCalls :
        /\ c1 # c2
        /\ calls[c1].sessionId = calls[c2].sessionId
        /\ calls[c1].result = "ok"
        /\ calls[c2].result = "StorageError"


\* C10: once a document of the store has status ended, no step changes its
\* status or its end time.
C10_EndedIsFinal ==
    [][\A i \in 1..Len(sessionDocs) :
           sessionDocs[i].status = "ended" =>
               /\ i <= Len(sessionDocs')
               /\ sessionDocs'[i].sessionId = sessionDocs[i].sessionId
               /\ sessionDocs'[i].status = "ended"
               /\ sessionDocs'[i].endTime = sessionDocs[i].endTime]_vars

\* C11: whatever the status lookup returns for an identifier, and every
\* session in the list of active sessions, has status active; a session
\* whose status is ended is not reachable through the index.
C11_LookupsReturnActive ==
    /\ \A sid \in SessionIds :
           GetSessionStatus(sid) # NoRef =>
               objs[GetSessionStatus(sid)].status = "active"
    /\ \A i \in 1..Len(GetAllActiveSessions) :
           objs[GetAllActiveSessions[i]].status = "active"

\* C15: an authenticated end request for an identifier that is not in the
\* index is answered 404, a storage failure is answered with a 5xx status,
\* and the two answers differ.
C15_EndNotFoundIs404 ==
    \A c \in EndCalls :
        /\ calls[c].result = "SessionNotFound" => calls[c].http = 404
        /\ calls[c].result = "StorageError" => calls[c].http \in 500..599

\* the findings of one type in a persisted event
FindingsOf(event, type) ==
    SelectSeq(event.suspiciousActivity, LAMBDA f : f.type = type)

FindingTypes(event) ==
    [j \in 1..Len(event.suspiciousActivity) |-> event.suspiciousActivity[j].type]

GazeQualifies(event) ==
    /\ Len(event.gazeData) = 1
    /\ event.gazeData[1].lookingAway
    /\ event.gazeData[1].duration > 5000

VoicesQualify(event) ==
    /\ Len(event.audioData) = 1
    /\ event.audioData[1].multipleVoices

\* C12: a persisted event has a gaze_away finding exactly when its gaze
\* sample is looking away for strictly more than 5000 ms; then there is one
\* such finding, of severity medium and with the sample's confidence.
C12_GazeAwayRule ==
    \A i \in 1..Len(monitoringDocs) :
        LET e == monitoringDocs[i]
            f == FindingsOf(e, "gaze_away")
        IN  /\ Len(f) = (IF GazeQualifies(e) THEN 1 ELSE 0)
            /\ \A j \in 1..Len(f) :
                   /\ f[j].severity = "medium"
                   /\ f[j].confidence = e.gazeData[1].confidence

\* a sample of exactly 5000 ms without a finding, and one above with it
C12_Witness ==
    \E i, j \in 1..Len(monitoringDocs) :
        /\ Len(monitoringDocs[i].gazeData) = 1
        /\ monitoringDocs[i].gazeData[1].lookingAway
        /\ monitoringDocs[i].gazeData[1].duration = 5000
        /\ FindingsOf(monitoringDocs[i], "gaze_away") = <<>>
        /\ GazeQualifies(monitoringDocs[j])
        /\ Len(FindingsOf(monitoringDocs[j], "gaze_away")) = 1
        /\ FindingsOf(monitoringDocs[j], "gaze_away")[1].confidence = 7

\* C13: a persisted event has a multiple_voices finding exactly when its
\* audio sample reports multiple voices, whatever its volume, frequency and
\* background noise; then there is one such finding, of severity high and
\* confidence 0.8.
C13_MultipleVoicesRule ==
    \A i \in 1..Len(monitoringDocs) :
        LET e == monitoringDocs[i]
            f == FindingsOf(e, "multiple_voices")
        IN  /\ Len(f) = (IF VoicesQualify(e) THEN 1 ELSE 0)
            /\ \A j \in 1..Len(f) :
                   /\ f[j].severity = "high"
                   /\ f[j].confidence = 8

\* two flagged samples of different volume, frequency and noise
C13_Witness ==
    \E i, j \in 1..Len(monitoringDocs) :
        /\ VoicesQualify(monitoringDocs[i])
        /\ VoicesQualify(monitoringDocs[j])
        /\ monitoringDocs[i].audioData[1].volume = 0
        /\ monitoringDocs[j].audioData[1].volume > 0
        /\ monitoringDocs[i].audioData[1].frequency
               # monitoringDocs[j].audioData[1].frequency
        /\ Len(FindingsOf(monitoringDocs[i], "multiple_voices")) = 1
        /\ Len(FindingsOf(monitoringDocs[j], "multiple_voices")) = 1

\* C14: every record call whose save succeeded persisted exactly one event;
\* an event has at most two findings, gaze_away before multiple_voices when
\* both samples qualify; without a gaze sample there is no gaze_away finding
\* and without an audio sample no multiple_voices finding.
C14_OneEventUpToTwoFindings ==
    /\ Len(monitoringDocs) = Cardinality({c \in RecordCalls : calls[c].ok})
    /\ \A i \in 1..Len(monitoringDocs) :
           LET e == monitoringDocs[i]
           IN  /\ FindingTypes(e) \in
                      {<<>>, <<"gaze_away">>, <<"multiple_voices">>,
                       <<"gaze_away", "multiple_voices">>}
               /\ (GazeQualifies(e) /\ VoicesQualify(e)) =>
                      FindingTypes(e) = <<"gaze_away", "multiple_voices">>
               /\ e.gazeData = <<>> => FindingsOf(e, "gaze_away") = <<>>
               /\ e.audioData = <<>> => FindingsOf(e, "multiple_voices") = <<>>

\* an event with both findings and an event of a record without samples
C14_Witness ==
    \E i, j \in 1..Len(monitoringDocs) :
        /\ Len(monitoringDocs[i].suspiciousActivity) = 2
        /\ monitoringDocs[j].gazeData = <<>>
        /\ monitoringDocs[j].audioData = <<>>
        /\ monitoringDocs[j].suspiciousActivity = <<>>

\* C16: a record request of a client that failed, its session not being
\* active or the save failing, has been answered to that client.
C16_FailedRecordAnswered ==
    \A c \in RecordCalls :
        (/\ calls[c].origin = "socket"
         /\ calls[c].pc = "done"
         /\ calls[c].result \in {"SessionNotFound", "StorageError"})
        => \E m \in BagToSet(delivered) : m.to = calls[c].socket /\ m.call = c

\* C20: the step that completes a record delivers its event to every other
\* client in the room of its session when the record succeeded, whether a
\* client or a sampling timer invoked it, and delivers nothing for it when
\* it failed.
C20_RecordIsBroadcast ==
    [][\A c \in Calls :
           (/\ calls'[c].op = "record"
            /\ calls[c].pc # "done"
            /\ calls'[c].pc = "done")
           => IF calls'[c].result = "ok"
              THEN \A k \in Sockets \ {calls'[c].socket} :
                       calls'[c].sessionId \in rooms[k] =>
                           \E m \in BagToSet(delivered') :
                               /\ m.to = k
                               /\ m.call = c
                               /\ m.event = "monitoring-update"
              ELSE \A m \in BagToSet(delivered') : m.call # c]_vars

\* a start request lacking one of the required fields
MissingField(body) ==
    body.userId = "" \/ body.externalCallId = "" \/ body.callPlatform = ""

\* C17: a step of a client's request that came without the shared credential
\* answers 401 at once and changes neither the index, nor a session object,
\* nor the stored sessions, nor the stored events.
C17_NoCredentialNoEffect ==
    [][\A c \in Calls :
           (/\ calls'[c] # calls[c]
            /\ calls'[c].origin \notin {"gaze", "audio"}
            /\ Unauthorized(calls'[c].auth))
           => /\ calls'[c].http = 401
              /\ calls'[c].pc = "done"
              /\ UNCHANGED <<activeSessions, objs, sessionDocs,
                             monitoringDocs>>]_vars

\* C18: an authenticated start whose body lacks userId, externalCallId or
\* callPlatform is answered at once with a 4xx status; it builds no session,
\* registers none, starts no sampler, and the store holds exactly the
\* documents of the starts whose save was accepted, none with an empty field.
C18_StartMissingFieldRejected ==
    /\ \A c \in StartCalls :
           (~Unauthorized(calls[c].auth) /\ MissingField(calls[c].body[1])) =>
               /\ calls[c].pc = "done"
               /\ calls[c].http \in 400..499
               /\ calls[c].sessionId = NoId
               /\ objs[c] = NoObj
               /\ ~Registered(c)
               /\ ~Sampled(c)
    /\ Len(sessionDocs) = Cardinality({c \in StartCalls : calls[c].ok})
    /\ \A i \in 1..Len(sessionDocs) :
           /\ sessionDocs[i].userId # ""
           /\ sessionDocs[i].externalCallId # ""
           /\ sessionDocs[i].callPlatform # ""

\* a start rejected for each missing field, and one that went through
C18_Witness ==
    \E c1, c2, c3 \in StartCalls :
        /\ calls[c1].http = 400 /\ calls[c1].body[1].userId = ""
        /\ calls[c2].http = 400 /\ calls[c2].body[1].callPlatform = ""
           /\ calls[c2].body[1].userId # ""
        /\ calls[c3].result = "ok"

\* C19: a finished start whose platform is not one of zoom, meet, teams,
\* other was answered with a 4xx status and left no session in the store or
\* the index.
C19_UnknownPlatformIs4xx ==
    \A c \in StartCalls :
        (/\ calls[c].pc = "done"
         /\ ~MissingField(calls[c].body[1])
         /\ calls[c].body[1].callPlatform \notin CallPlatforms)
        => /\ calls[c].http \in 400..499
           /\ ~Registered(c)
           /\ calls[c].sessionId \notin DocIds(sessionDocs)

\* C21: a step that writes a monitoring update to a client writes it once,
\* and only to a client that is in the room of the update's session at that
\* moment; a client in other rooms only, or in none, gets nothing.
C21_DeliveredToRoomOnly ==
    [][\A m \in BagToSet(delivered') :
           (/\ m.event = "monitoring-update"
            /\ CopiesIn(m, delivered') > CopiesIn(m, delivered))
           => /\ m.data.sessionId \in rooms[m.to]
              /\ CopiesIn(m, delivered') = 1]_vars

\* one update of s1 reached k2, another did not while k2 is in room s2 only
C21_Witness ==
    \E b, c \in RecordCalls :
        /\ calls[b].sessionId = "s1" /\ calls[c].sessionId = "s1"
        /\ calls[b].result = "ok" /\ calls[c].result = "ok"
        /\ calls[b].socket = "k1" /\ calls[c].socket = "k1"
        /\ \E m \in BagToSet(delivered) : m.call = b /\ m.to = "k2"
        /\ \A m \in BagToSet(delivered) : m.call # c
        /\ rooms["k2"] = {"s2"}

WebhookCalls == {c \in Calls : calls[c].op = "webhook"}

\* C22: the step that handles a webhook event, of whatever type, leaves the
\* index, the session objects, the stored sessions, the stored events, the
\* samplers and the rooms unchanged; it writes its event, and nothing else,
\* to client sockets, among them every socket that is in a room.
C22_WebhookOnlyBroadcasts ==
    [][\A c \in Calls :
           (calls[c].pc = "idle" /\ calls'[c].op = "webhook")
           => /\ UNCHANGED <<activeSessions, objs, sessionDocs, monitoringDocs>>
              /\ UNCHANGED <<gaze, audioInterval, audioTimers, rooms>>
              /\ calls'[c].http = 200
              /\ \A m \in BagToSet(delivered') :
                     CopiesIn(m, delivered') > CopiesIn(m, delivered) =>
                         /\ m.event = "external-call-webhook"
                         /\ m.call = c
                         /\ m.data.eventType = calls'[c].doc[1].eventType
              /\ \A k \in Sockets :
                     rooms[k] # {} =>
                         \E m \in BagToSet(delivered') : m.to = k /\ m.call = c]_vars

\* a call_ended event about the call of a session that is still active
C22_Witness ==
    \E w \in WebhookCalls, c \in StartCalls :
        /\ w > c
        /\ calls[w].doc[1].eventType = "call_ended"
        /\ calls[w].doc[1].callId = calls[c].body[1].externalCallId
        /\ calls[c].result = "ok"
        /\ Registered(c)
        /\ objs[c].status = "active"
        /\ \E m \in BagToSet(delivered) : m.call = w

HistoryCalls == {c \in Calls : calls[c].op = "history"}

\* C23: the step in which the store answers a history request for a user
\* yields one session per stored document of that user, with the document's
\* identifier, status and end time, and nothing else, whatever the index
\* holds.
C23_HistoryIsTheUsersDocuments ==
    [][\A c \in Calls :
           (/\ calls[c].op = "history"
            /\ calls[c].pc = "awaitFind"
            /\ calls'[c].pc = "resume"
            /\ calls'[c].ok)
           => LET userId == calls[c].doc[1]
                  result == calls'[c].doc
                  mine == {i \in 1..Len(sessionDocs) :
                               sessionDocs[i].userId = userId}
              IN  /\ Len(result) = Cardinality(mine)
                  /\ \A j \in 1..Len(result) : result[j].userId = userId
                  /\ \A i \in mine :
                         \E j \in 1..Len(result) :
                             /\ result[j].id = sessionDocs[i].sessionId
                             /\ result[j].status = sessionDocs[i].status
                             /\ result[j].endTime = sessionDocs[i].endTime]_vars

\* a history with an ended session and an active one, of which one is in the
\* index and the other is not, while the store holds another user's session
C23_Witness ==
    \E c \in HistoryCalls :
        /\ calls[c].result = "ok"
        /\ \E i, j \in 1..Len(calls[c].doc) :
               /\ calls[c].doc[i].status = "ended"
               /\ calls[c].doc[j].status = "active"
               /\ MapHas(activeSessions, calls[c].doc[i].id)
                      # MapHas(activeSessions, calls[c].doc[j].id)
        /\ \E i \in 1..Len(sessionDocs), j \in 1..Len(calls[c].doc) :
               sessionDocs[i].userId # calls[c].doc[j].userId

\* C24: once getAllActiveSessions has returned, no step changes the returned
\* sequence or the status or end time of a session in it.
C24_ListIsSnapshot ==
    [][\A c \in Calls :
           calls[c].op = "listActive" =>
               /\ calls'[c].doc = calls[c].doc
               /\ \A i \in 1..Len(calls[c].doc) :
                      /\ objs'[calls[c].doc[i]].status
                             = objs[calls[c].doc[i]].status
                      /\ objs'[calls[c].doc[i]].endTime
                             = objs[calls[c].doc[i]].endTime]_vars

\* C25: every key of the index is the identifier of a stored document; a
\* start that was answered with success has its document in the store, and
\* an end that was answered with success has its document stored as ended.
C25_WriteThrough ==
    /\ MapKeys(activeSessions) \subseteq DocIds(sessionDocs)
    /\ \A c \in StartCalls :
           calls[c].result = "ok" => calls[c].sessionId \in DocIds(sessionDocs)
    /\ \A c \in EndCalls :
           calls[c].result = "ok" =>
               \E i \in 1..Len(sessionDocs) :
                   /\ sessionDocs[i].sessionId = calls[c].sessionId
                   /\ sessionDocs[i].status = "ended"

\* one session ended with success while another is still in the index
C25_Witness ==
    \E c \in StartCalls, e \in EndCalls :
        /\ calls[c].result = "ok"
        /\ Registered(c)
        /\ calls[e].result = "ok"
        /\ calls[e].sessionId # calls[c].sessionId

UploadCalls == {c \in Calls : calls[c].op = "upload"}

\* the paths an update assigns
UpdatePaths(update) == {update[i][2] : i \in 1..Len(update)}

\* C26: a step that puts a path into the recordingPaths of a stored session
\* is the update of an upload call that found this session in the index and
\* whose save produced that path; a step in which an upload is refused, for
\* a missing field, an invalid type or an unknown session, or in which its
\* save fails, leaves the stored sessions unchanged.
C26_LocatorAfterSave ==
    [][/\ \A i \in 1..Len(sessionDocs), rt \in RecordingTypes :
             (/\ sessionDocs'[i].recordingPaths[rt]
                     # sessionDocs[i].recordingPaths[rt]
              /\ sessionDocs'[i].recordingPaths[rt] # NoPath)
             => \E c \in Calls :
                    /\ calls[c].op = "upload"
                    /\ calls[c].pc \in {"awaitUpdate", "awaitUpdate2"}
                    /\ calls[c].session # NoRef
                    /\ calls[c].sessionId = sessionDocs[i].sessionId
                    /\ sessionDocs'[i].recordingPaths[rt]
                           \in UpdatePaths(calls[c].doc)
                    /\ sessionDocs'[i].recordingPaths[rt][3] = c
       /\ \A c \in Calls :
             (/\ calls'[c] # calls[c]
              /\ calls'[c].op = "upload"
              /\ \/ calls'[c].http \in {400, 404}
                 \/ calls'[c].result = "SaveFailed")
             => sessionDocs' = sessionDocs]_vars

\* a path attached by one upload, another upload refused for its type
C26_Witness ==
    \E c, d \in UploadCalls :
        /\ calls[c].result = "ok"
        /\ \E i \in 1..Len(sessionDocs), rt \in RecordingTypes :
               /\ sessionDocs[i].recordingPaths[rt] # NoPath
               /\ sessionDocs[i].recordingPaths[rt][3] = c
        /\ calls[d].http = 400
        /\ calls[d].recordingType = "bogus"

\* C30: when end(id) returns with the failure of its durable update, the
\* session is still in the active index, with status active and no end time.
C30_FailedEndLeavesSessionActive ==
    [][\A c \in Calls :
          (/\ calls[c].op = "end"
           /\ calls[c].pc = "resume"
           /\ ~calls[c].ok
           /\ calls'[c].pc = "done")
          => /\ calls'[c].result = "StorageError"
             /\ MapGet(activeSessions', calls[c].sessionId) # NoRef
             /\ objs'[MapGet(activeSessions', calls[c].sessionId)].status
                    = "active"
             /\ objs'[MapGet(activeSessions', calls[c].sessionId)].endTime
                    = NoTime]_vars

\* C29: a GET request whose path is a session identifier followed by `info`
\* is handled by getRecordingInfo, and answered with the recording
\* information of that session when the session is stored.
C29_InfoRouteReachesInfoHandler ==
    \A c \in Calls :
        (/\ calls[c].op \in {"getRecording", "getRecordingInfo", "noRoute"}
         /\ calls[c].body[1][2] = "info")
        => /\ calls[c].op = "getRecordingInfo"
           /\ calls[c].sessionId = calls[c].body[1][1]
           /\ (calls[c].pc = "done" /\ calls[c].http = 200)
                  => calls[c].doc[1].sessionId = calls[c].sessionId

\* C28: every start, end and record call that was invoked eventually
\* returns, whether or not the store answers it.
C28_EveryCallReturns ==
    \A c \in Calls :
        (calls[c].pc \notin {"idle", "done"}) ~> (calls[c].pc = "done")

\* the initializeModel() runs so far, and those whose promise rejected
Initializations == {p \in Calls : promises[p] # "none"}
FailedLoads == {p \in Calls : promises[p] = "rejected"}

\* C27: at most one initializeModel() run has not failed; a transcribe call
\* that reaches loadModel while a load is pending awaits the promise of that
\* load, one that reaches it after the model was loaded gets the model, and
\* neither starts a run; a run is started only when no model is loaded and
\* every earlier run has failed.
C27_OneLoadWhileItSucceeds ==
    [][/\ Cardinality(Initializations' \ FailedLoads') <= 1
       /\ \A c \in Calls :
             (calls[c].pc = "awaitAccess" /\ calls'[c].pc # "awaitAccess"
                  /\ calls'[c].result # "FileNotFound")
             => IF transcriber # NoModel
                THEN /\ calls'[c].pc = "reuse"
                     /\ promises' = promises
                ELSE IF loadPromise # NoRef
                            /\ promises[loadPromise] = "pending"
                THEN /\ calls'[c].pc = "awaitShared"
                     /\ calls'[c].doc = <<loadPromise>>
                     /\ promises' = promises
                ELSE Initializations' # Initializations
                         => Initializations = FailedLoads]_vars

\* one call loaded the model, a second shared that load, a third reused
\* the model
C27_Witness ==
    \E a, b, d \in Calls :
        /\ promises[a] = "resolved"
        /\ calls[a].result = "ok"
        /\ b # a
        /\ calls[b].result = "ok"
        /\ calls[b].doc = <<a>>
        /\ calls[d].op = "transcribe"
        /\ calls[d].result = "ok"
        /\ calls[d].doc = <<>>

\* C37: a step of a record call changes neither the active-session index
\* nor any session, in memory or stored, nor the samplers; its successful
\* save appends one monitoring event with the call's session id and every
\* other step of it leaves the monitoring events as they were.
C37_RecordOnlyAppendsItsEvent ==
    [][\A c \in Calls :
          (calls'[c].op = "record" /\ calls'[c] # calls[c])
          => /\ UNCHANGED <<activeSessions, objs, sessionDocs, gaze,
                            audioInterval, audioTimers>>
             /\ IF calls[c].pc = "awaitSave" /\ calls'[c].ok
                THEN /\ Len(monitoringDocs') = Len(monitoringDocs) + 1
                     /\ SubSeq(monitoringDocs', 1, Len(monitoringDocs))
                            = monitoringDocs
                     /\ monitoringDocs'[Len(monitoringDocs')].sessionId
                            = calls[c].sessionId
                ELSE monitoringDocs' = monitoringDocs]_vars

\* one record returned with success and another with a storage failure
C37_Witness ==
    \E c, d \in RecordCalls :
        /\ calls[c].pc = "done" /\ calls[c].result = "ok"
        /\ calls[d].pc = "done" /\ calls[d].result = "StorageError"
        /\ \E i \in 1..Len(monitoringDocs) :
               monitoringDocs[i].sessionId = calls[c].sessionId

\* C31: while a session whose start was answered with success has had no
\* end invoked for it, a gaze timer whose callback records for that session
\* is live.
C31_GazeTimerPerSession ==
    \A c \in StartCalls :
        (/\ calls[c].pc = "done"
         /\ calls[c].result = "ok"
         /\ ~\E d \in EndCalls :
                d > c /\ calls[d].sessionId = calls[c].sessionId)
        => /\ gaze.trackingInterval # NoRef
           /\ objs[gaze.trackingInterval].id = calls[c].sessionId

\* C32: at most one audio-analysis timer is live, and none is live while
\* the service holds no timer handle, as after a stop.
C32_OneAudioTimer ==
    /\ Cardinality(audioTimers) <= 1
    /\ audioInterval = NoRef => audioTimers = {}

\* C33: a delete that is answered with success removes from the recordings
\* list the recording whose id was requested, and no step of a delete
\* removes any other recording.
C33_DeleteRemovesItsRecording ==
    [][\A q \in Requests :
          (requests[q].op = "delete" /\ requests[q].pc = "awaitUnlink"
               /\ requests'[q].pc = "done")
          => /\ requests'[q].http = 200
                    => \A i \in 1..Len(recordings') :
                           recordingObjs[recordings'[i]].id # requests[q].id
             /\ \A i \in 1..Len(recordings) :
                    recordingObjs[recordings[i]].id # requests[q].id
                    => \E j \in 1..Len(recordings') :
                           recordings'[j] = recordings[i]]_vars

\* the transcribe requests in flight for a recording
InFlight(ref) ==
    {c \in Calls : /\ calls[c].op = "transcribe"
                   /\ calls[c].origin = "http"
                   /\ calls[c].session = ref
                   /\ calls[c].pc \notin {"idle", "done"}}

StatusStep(from, to) ==
    \/ from = to
    \/ from = "none" /\ to = "pending"
    \/ from \in {"pending", "failed", "completed"} /\ to = "processing"
    \/ from = "processing" /\ to \in {"completed", "failed"}

\* C34: a recording has a transcription in flight exactly while its status
\* is processing, and never more than one; a transcribe request that finds
\* the status processing is answered 400 and changes nothing; the status
\* only moves from pending, failed or completed to processing and from
\* processing to completed or failed.
C34_OneTranscriptionInFlight ==
    [][/\ \A ref \in Requests :
             /\ Cardinality(InFlight(ref)') <= 1
             /\ (recordingObjs'[ref].transcriptStatus = "processing")
                    <=> (InFlight(ref)' # {})
             /\ StatusStep(recordingObjs[ref].transcriptStatus,
                           recordingObjs'[ref].transcriptStatus)
       /\ \A c \in Calls :
             (/\ calls[c].pc = "idle"
              /\ calls'[c].op = "transcribe"
              /\ calls'[c].origin = "http"
              /\ calls'[c].session # NoRef
              /\ recordingObjs[calls'[c].session].transcriptStatus
                     = "processing")
             => /\ calls'[c].http = 400
                /\ calls'[c].pc = "done"
                /\ UNCHANGED <<recordingStore, transcription>>]_vars

\* a request was answered 400 while another is in flight for the recording
C34_Witness ==
    \E c, d \in Calls :
        /\ calls[c].op = "transcribe"
        /\ calls[c].http = 400
        /\ d \in InFlight(calls[c].session)
        /\ recordingObjs[calls[c].session].transcriptStatus = "processing"

\* C35: a recording whose status is processing eventually has the status
\* completed or failed.
C35_ProcessingEnds ==
    \A ref \in Requests :
        (recordingObjs[ref].transcriptStatus = "processing")
            ~> (recordingObjs[ref].transcriptStatus \in {"completed", "failed"})

\* one transcription completed and one failed
C35_Witness ==
    \E a, b \in Requests :
        /\ recordingObjs[a].transcriptStatus = "completed"
        /\ recordingObjs[b].transcriptStatus = "failed"
        /\ \E c, d \in Calls :
               /\ calls[c].session = a /\ calls[c].http = 200
               /\ calls[d].session = b /\ calls[d].http = 500

HookCalls ==
    {c \in Calls : calls[c].op \in {"hookStart", "hookEnd", "hookRefresh"}}

\* C38: in the hook, endSession without a session awaits nothing and leaves
\* the state as it is; the step in which endSession returns leaves the
\* session ended with an end time after a success, and the session as it
\* was with error set after a failure; the step in which any of the three
\* operations returns from its request leaves loading false.
C38_HookEndAndLoading ==
    [][\A c \in Calls :
          /\ (/\ calls[c].pc = "idle"
               /\ calls'[c].op = "hookEnd"
               /\ hook.session = NoSession)
              => calls'[c].pc = "done" /\ hook' = hook
          /\ (/\ calls[c].op = "hookEnd"
               /\ calls[c].pc = "awaitApi"
               /\ calls'[c].pc = "done")
              => IF calls'[c].result = "ok"
                 THEN /\ hook'.session.status = "ended"
                      /\ hook'.session.endTime # NoTime
                 ELSE /\ hook'.session = hook.session
                      /\ hook'.error # ""
          /\ (/\ c \in HookCalls
               /\ calls[c].pc = "awaitApi"
               /\ calls'[c].pc = "done")
              => ~hook'.loading]_vars

\* an endSession without a session, one that failed and one that succeeded
C38_Witness ==
    \E a, b, c \in Calls :
        /\ calls[a].op = "hookEnd" /\ calls[a].result = "noSession"
        /\ calls[b].op = "hookEnd" /\ calls[b].result = "failed"
        /\ hook.error = "Failed to end session"
        /\ hook.session.status = "active"
        /\ calls[c].op = "hookStart" /\ calls[c].result = "ok"

\* C36: a dashboard that holds a session and whose socket is connected
\* eventually has its socket in the room of that session.
C36_HeldSessionIsJoined ==
    (hook.session # NoSession /\ socketConnected)
        ~> (hook.session # NoSession
                /\ hook.session.id \in rooms[ClientSocket])

====
